---- MODULE Spec2Model ----
(***************************************************************************)
(* Model of the functionality-testing engine of src/index.js: the          *)
(* FailureTracker ledger, the element interaction policy, the crawl        *)
(* (performComprehensiveNavigation) and the /batch-review orchestrator     *)
(* with its decision merge.                                                *)
(***************************************************************************)
EXTENDS Integers, Sequences, FiniteSets, TLC

VARIABLES
    pc,            \* position of the /batch-review handler (or "ledger" for the bare ledger)
    site,          \* the web site under test (a name of Sites), fixed by the request
    urls,          \* req.body.urls
    deepTest,      \* req.body.deepTest
    maxDepth,      \* req.body.maxDepth
    hasKey,        \* process.env.OPENAI_API_KEY is set
    urlIdx,        \* index of the url of the for loop
    tracker,       \* the FailureTracker of the current url
    success,       \* let success
    attempts,      \* let attempts
    results,       \* const results = []
    response,      \* what res was answered: "none", "json", "error500"
    pagesOpened,   \* number of browser.newPage() calls that returned
    pagesClosed,   \* number of page.close() calls on them
    pageAt,        \* the URL the browser page shows (0: about:blank)
    navLog,        \* the URLs page.goto was called with in this session, in order
    status,        \* const status of the root load
    testSummary,   \* const testSummary = failureTracker.getSummary()
    finalDecision, \* let finalDecision
    aiReason,      \* let aiReason
    judge,         \* what the judgment service answered
    err,           \* the exception caught by the attempt's catch
    stack,         \* the activation records of performComprehensiveNavigation
    visitedUrls,   \* the visitedUrls Set of the crawl
    pageMetrics,   \* const pageMetrics
    trail,         \* what the handler did so far: pages opened, exceptions caught, waits
    ops,           \* number of ledger operations applied (bare ledger only)
    events,        \* the events the browser delivered to the page.on handlers: how many, and the last
    rateLimitMap,  \* const rateLimitMap = new Map(): client address -> { count, resetTime }
    clock,         \* Date.now(), counted from the start of the server
    served         \* per client address, the requests rateLimit answered: when, and whether next() was called

vars == <<pc, site, urls, deepTest, maxDepth, hasKey, urlIdx, tracker, success,
          attempts, results, response, pagesOpened, pagesClosed, pageAt, navLog,
          status, testSummary, finalDecision, aiReason, judge, err, stack,
          visitedUrls, pageMetrics, trail, ops, events, rateLimitMap, clock, served>>

\* what no step of the handler writes: the request, the site, the
\* environment, the log of the events delivered by the browser, and the
\* state of the rate limiter that runs before the handler
envVars == <<site, urls, deepTest, maxDepth, hasKey, events, rateLimitMap, clock, served>>

\* F applied to the value of v, which is computed once
Once(v, F(_)) == CHOOSE r \in {F(x) : x \in {v}} : TRUE

(***************************************************************************)
(* rateLimit                                                               *)
(***************************************************************************)
RATE_LIMIT_WINDOW == 60000
RATE_LIMIT_MAX_REQUESTS == 10

\* the client addresses requests come from
Clients == {"10.0.0.1", "10.0.0.2"}

\* new Map()
NoClients == [ip \in {} |-> [count |-> 0, resetTime |-> 0]]

\* rateLimitMap.set(clientIP, { count: 1, resetTime: now + RATE_LIMIT_WINDOW })
NewWindow(map, clientIP, now) ==
    [ip \in DOMAIN map \cup {clientIP} |->
        IF ip = clientIP
        THEN [count |-> 1, resetTime |-> now + RATE_LIMIT_WINDOW]
        ELSE map[ip]]

\* A limiter that compares with > and lets one request more through.
rateLimitOneMore(map, clientIP, now) ==
    IF clientIP \notin DOMAIN map
    THEN [map |-> NewWindow(map, clientIP, now), next |-> TRUE, status |-> 0]
    ELSE IF now > map[clientIP].resetTime
    THEN [map |-> NewWindow(map, clientIP, now), next |-> TRUE, status |-> 0]
    ELSE IF map[clientIP].count > RATE_LIMIT_MAX_REQUESTS
    THEN [map |-> map, next |-> FALSE, status |-> 429]
    ELSE [map |-> [map EXCEPT ![clientIP].count = @ + 1], next |-> TRUE, status |-> 0]

\* rateLimit(req, res, next): the map after the call, whether next() was
\* called, and the status answered (0: none, the request goes on)
rateLimit(map, clientIP, now) ==
    IF clientIP \notin DOMAIN map
    THEN [map |-> NewWindow(map, clientIP, now), next |-> TRUE, status |-> 0]
    ELSE IF now > map[clientIP].resetTime
    THEN [map |-> NewWindow(map, clientIP, now), next |-> TRUE, status |-> 0]
    ELSE IF map[clientIP].count >= RATE_LIMIT_MAX_REQUESTS
    THEN [map |-> map, next |-> FALSE, status |-> 429]
    ELSE [map |-> [map EXCEPT ![clientIP].count = @ + 1], next |-> TRUE, status |-> 0]

(***************************************************************************)
(* TESTING_CONFIG                                                          *)
(***************************************************************************)
MAX_PAGES_TO_TEST == 15
MAX_DEPTH == 4
CRITICAL_ERROR_THRESHOLD == 3
BROKEN_ELEMENT_THRESHOLD == 2

(***************************************************************************)
(* class FailureTracker                                                    *)
(***************************************************************************)
Severities == {"low", "medium", "high", "critical"}

\* new FailureTracker()
FailureTracker ==
    [failures |-> <<>>, criticalFailures |-> <<>>, warnings |-> <<>>,
     testedElements |-> 0, brokenElements |-> 0, pagesVisited |-> <<>>]

\* a page argument that is null (or omitted) is stored as 'main'
NoPage == "null"

FailureRecord(type, severity, page) ==
    [type |-> type, severity |-> severity,
     page |-> IF page = NoPage THEN "main" ELSE page]

\* A ledger that assigns the latest record where it should push it.
addFailureReplace(t, type, severity, page) ==
    LET failure == FailureRecord(type, severity, page)
    IN  [t EXCEPT !.failures = <<failure>>,
                  !.criticalFailures =
                      IF severity = "critical" THEN <<failure>> ELSE <<>>]

\* A ledger that puts the latest record first (unshift for push).
addFailureUnshift(t, type, severity, page) ==
    LET failure == FailureRecord(type, severity, page)
    IN  [t EXCEPT !.failures = <<failure>> \o @,
                  !.criticalFailures =
                      IF severity = "critical" THEN <<failure>> \o @ ELSE @]

addFailure(t, type, severity, page) ==
    LET failure == FailureRecord(type, severity, page)
    IN  [t EXCEPT !.failures = Append(@, failure),
                  !.criticalFailures =
                      IF severity = "critical" THEN Append(@, failure) ELSE @]

\* A ledger that files a warning with the failures, as a record of the
\* default severity.
addWarningAsFailure(t, message, page) ==
    [t EXCEPT !.warnings = Append(@, [message |-> message, page |-> page]),
              !.failures = Append(@, FailureRecord("WARNING", "medium", page))]

addWarning(t, message, page) ==
    [t EXCEPT !.warnings = Append(@, [message |-> message, page |-> page])]

incrementBroken(t) == [t EXCEPT !.brokenElements = @ + 1]

incrementTested(t) == [t EXCEPT !.testedElements = @ + 1]

\* failures.filter(f => f.severity === sev).length
CountSeverity(t, sev) ==
    Cardinality({i \in 1..Len(t.failures) : t.failures[i].severity = sev})

\* A ledger whose broken-element test is strict.
shouldFailStrict(t) ==
    \/ Len(t.criticalFailures) > 0
    \/ t.brokenElements > BROKEN_ELEMENT_THRESHOLD
    \/ CountSeverity(t, "high") >= CRITICAL_ERROR_THRESHOLD

shouldFail(t) ==
    \/ Len(t.criticalFailures) > 0
    \/ t.brokenElements >= BROKEN_ELEMENT_THRESHOLD
    \/ CountSeverity(t, "high") >= CRITICAL_ERROR_THRESHOLD

\* brokenElementRatio is a quotient of two counters: kept as the pair
\* num/den, with 0 (0/1) when nothing was tested.
getSummary(t) ==
    [totalFailures |-> Len(t.failures),
     criticalFailures |-> Len(t.criticalFailures),
     warnings |-> Len(t.warnings),
     testedElements |-> t.testedElements,
     brokenElements |-> t.brokenElements,
     brokenElementRatio |->
         IF t.testedElements > 0
         THEN [num |-> t.brokenElements, den |-> t.testedElements]
         ELSE [num |-> 0, den |-> 1],
     pagesVisited |-> Len(t.pagesVisited),
     shouldFail |-> shouldFail(t)]

(***************************************************************************)
(* The Page Automation Capability: what the browser shows.  A site maps    *)
(* each URL to a page; an element or an input carries what the browser     *)
(* answers when the engine evaluates or acts on it.                        *)
(***************************************************************************)
\* element[action] and element.evaluate outcomes
Behaviours == {"ok", "hidden", "disabled", "stillHidden", "actionFails",
               "evalThrows", "infoThrows"}

\* const buttonSelectors: 7 is 'a[href]:not([href="#"]):not([href^="javascript:void"])'
buttonSelectors == 1..9

\* an interactive element of a page: the buttonSelectors it matches, its
\* behaviour, the URL it links to ("" for none), whether it sits in a
\* nav/header/menu container, whether a click on it loads its href in the
\* page, whether a click on it opens an overlay
Element(sels, beh, href, inNav, navigates, modal) ==
    [sels |-> sels, beh |-> beh, href |-> href, inNav |-> inNav,
     navigates |-> navigates, modal |-> modal]

Button(beh) == Element({1}, beh, "", FALSE, FALSE, FALSE)

Anchor(href, inNav, navigates) == Element({7}, "ok", href, inNav, navigates, FALSE)

\* an input of a form: type, name ("" for none), whether the type is
\* spelled out in the markup, behaviour
Input(type, name, typeAttr, beh) ==
    [type |-> type, name |-> name, typeAttr |-> typeAttr, beh |-> beh]

Form(inputs, hasSubmitButton, submitClickable) ==
    [inputs |-> inputs, hasSubmitButton |-> hasSubmitButton,
     submitClickable |-> submitClickable]

\* a page: the HTTP status page.goto gets for it (0: goto throws), its
\* elements in document order, its forms, the close controls of its overlay
\* in closeSelectors order ("absent" where the selector matches nothing),
\* the length of window.jsErrors, whether page.evaluate of the scroll probe
\* throws, whether page.evaluate of the JS-error check throws
Page(http, elems, forms) ==
    [http |-> http, elems |-> elems, forms |-> forms, closers |-> <<>>,
     jsErrors |-> 0, scrollThrows |-> FALSE, jsCheckThrows |-> FALSE]

\* the page at a URL the site does not serve
NotFound == Page(404, <<>>, <<>>)

PageOf(s, url) == IF url \in DOMAIN s THEN s[url] ELSE NotFound

\* document.querySelector('nav, .navigation, .navbar, .menu, header .menu')
hasNavigation(p) == \E i \in 1..Len(p.elems) : p.elems[i].inNav

(***************************************************************************)
(* page.on('response'): every response with status >= 400 the page gets.   *)
(***************************************************************************)
onResponse(t, http) ==
    IF http >= 500 THEN addFailure(t, "SERVER_ERROR", "critical", NoPage)
    ELSE IF http >= 400 THEN addFailure(t, "CLIENT_ERROR", "high", NoPage)
    ELSE t

(***************************************************************************)
(* The page.on handlers.  A text (an error message, a URL) is the sequence *)
(* of its pieces, cut so that each word a handler looks for is a piece:    *)
(* String.includes is the test that the word is among the pieces.          *)
(***************************************************************************)
includes(text, word) == \E i \in 1..Len(text) : text[i] = word

includesAny(text, words) == \E w \in words : includes(text, w)

\* page.on('pageerror')
onPageError(t, message) ==
    IF includesAny(message, {"require is not defined", "Script error",
                             "Non-Error promise rejection"})
    THEN t
    ELSE addFailure(t, "JAVASCRIPT_ERROR", "high", NoPage)

\* page.on('console'): type is msg.type()
onConsole(t, type, text) ==
    IF type = "error"
           /\ ~includesAny(text, {"require is not defined", "favicon", "Script error",
                                  "404"})
    THEN addFailure(t, "CONSOLE_ERROR", "medium", NoPage)
    ELSE t

\* page.on('requestfailed')
onRequestFailed(t, requestUrl) ==
    IF includesAny(requestUrl, {"favicon", "analytics", "ads", "tracking"})
    THEN t
    ELSE addFailure(t, "REQUEST_FAILED", "medium", NoPage)

\* A response handler without the test of the URL.
onResponseOfUnfiltered(t, responseUrl, http) == onResponse(t, http)

\* page.on('response') for a response of any URL: the filter on the URL
\* around the status tests
onResponseOf(t, responseUrl, http) ==
    IF http >= 400 /\ ~includesAny(responseUrl, {"favicon", "analytics", "ads"})
    THEN onResponse(t, http)
    ELSE t

\* an event: its kind, the text of a page error or console message, the
\* type of a console message, the URL and the status of a request or response
PageEvent(kind, text, type, eventUrl, http) ==
    [kind |-> kind, text |-> text, type |-> type, url |-> eventUrl, http |-> http]

\* the ledger after the handler of event e has run
Handle(t, e) ==
    CASE e.kind = "pageerror" -> onPageError(t, e.text)
      [] e.kind = "console" -> onConsole(t, e.type, e.text)
      [] e.kind = "requestfailed" -> onRequestFailed(t, e.url)
      [] OTHER -> onResponseOf(t, e.url, e.http)

(***************************************************************************)
(* safeElementAction: the ledger after the call and the value returned.    *)
(***************************************************************************)
\* A check of visibility and clickability that records its finding and
\* goes on to the action: the `return false` of both branches is missing.
safeElementActionGoesOn(t, beh) ==
    LET t1 == incrementTested(t)
    IN  CASE beh = "evalThrows" ->
                 [t |-> incrementBroken(addFailure(t, "INTERACTION_FAILED", "high", NoPage)),
                  ok |-> FALSE]
          [] beh = "hidden" ->
                 [t |-> incrementBroken(addFailure(t1, "HIDDEN_ELEMENT", "medium", NoPage)),
                  ok |-> TRUE]
          [] beh = "disabled" ->
                 [t |-> incrementBroken(addFailure(t1, "DISABLED_ELEMENT", "medium", NoPage)),
                  ok |-> TRUE]
          [] beh = "stillHidden" ->
                 [t |-> addFailure(t1, "ELEMENT_STILL_HIDDEN_AFTER_SCROLL", "critical", NoPage),
                  ok |-> FALSE]
          [] beh = "actionFails" ->
                 [t |-> incrementBroken(addFailure(t1, "INTERACTION_FAILED", "high", NoPage)),
                  ok |-> FALSE]
          [] OTHER -> [t |-> t1, ok |-> TRUE]

\* A catch block that records the failed action and leaves the counter of
\* broken elements alone.
safeElementActionUncounted(t, beh) ==
    LET t1 == incrementTested(t)
    IN  CASE beh = "evalThrows" ->
                 [t |-> incrementBroken(addFailure(t, "INTERACTION_FAILED", "high", NoPage)),
                  ok |-> FALSE]
          [] beh = "hidden" ->
                 [t |-> incrementBroken(addFailure(t1, "HIDDEN_ELEMENT", "medium", NoPage)),
                  ok |-> FALSE]
          [] beh = "disabled" ->
                 [t |-> incrementBroken(addFailure(t1, "DISABLED_ELEMENT", "medium", NoPage)),
                  ok |-> FALSE]
          [] beh = "stillHidden" ->
                 [t |-> addFailure(t1, "ELEMENT_STILL_HIDDEN_AFTER_SCROLL", "critical", NoPage),
                  ok |-> FALSE]
          [] beh = "actionFails" ->
                 [t |-> addFailure(t1, "INTERACTION_FAILED", "high", NoPage),
                  ok |-> FALSE]
          [] OTHER -> [t |-> t1, ok |-> TRUE]

\* A check after the scroll that records its finding with severity 'high'.
safeElementActionStillHiddenHigh(t, beh) ==
    LET t1 == incrementTested(t)
    IN  CASE beh = "evalThrows" ->
                 [t |-> incrementBroken(addFailure(t, "INTERACTION_FAILED", "high", NoPage)),
                  ok |-> FALSE]
          [] beh = "hidden" ->
                 [t |-> incrementBroken(addFailure(t1, "HIDDEN_ELEMENT", "medium", NoPage)),
                  ok |-> FALSE]
          [] beh = "disabled" ->
                 [t |-> incrementBroken(addFailure(t1, "DISABLED_ELEMENT", "medium", NoPage)),
                  ok |-> FALSE]
          [] beh = "stillHidden" ->
                 [t |-> addFailure(t1, "ELEMENT_STILL_HIDDEN_AFTER_SCROLL", "high", NoPage),
                  ok |-> FALSE]
          [] beh = "actionFails" ->
                 [t |-> incrementBroken(addFailure(t1, "INTERACTION_FAILED", "high", NoPage)),
                  ok |-> FALSE]
          [] OTHER -> [t |-> t1, ok |-> TRUE]

safeElementAction(t, beh) ==
    IF beh = "evalThrows" THEN
        \* element.evaluate throws before incrementTested: the catch block
        [t |-> incrementBroken(addFailure(t, "INTERACTION_FAILED", "high", NoPage)),
         ok |-> FALSE]
    ELSE LET t1 == incrementTested(t)
         IN  IF beh = "hidden" THEN
                 [t |-> incrementBroken(addFailure(t1, "HIDDEN_ELEMENT", "medium", NoPage)),
                  ok |-> FALSE]
             ELSE IF beh = "disabled" THEN
                 [t |-> incrementBroken(addFailure(t1, "DISABLED_ELEMENT", "medium", NoPage)),
                  ok |-> FALSE]
             ELSE IF beh = "stillHidden" THEN
                 [t |-> addFailure(t1, "ELEMENT_STILL_HIDDEN_AFTER_SCROLL", "critical", NoPage),
                  ok |-> FALSE]
             ELSE IF beh = "actionFails" THEN
                 [t |-> incrementBroken(addFailure(t1, "INTERACTION_FAILED", "high", NoPage)),
                  ok |-> FALSE]
             ELSE [t |-> t1, ok |-> TRUE]

(***************************************************************************)
(* performHumanLikeScrolling and discoverNewInteractiveElements            *)
(***************************************************************************)
performHumanLikeScrolling(t, p) ==
    IF p.scrollThrows THEN addFailure(t, "SCROLLING_ERROR", "medium", NoPage) ELSE t

(***************************************************************************)
(* testAllForms                                                            *)
(***************************************************************************)
\* form.$(inputSelector): the first input of the form the selector matches:
\* [name="..."] for a named input, else input[type="..."] or the tag, which
\* misses an input whose type is only implied (0: null)
FirstMatch(inputs, info) ==
    LET hits == {j \in 1..Len(inputs) :
                    IF info.name # "" THEN inputs[j].name = info.name
                    ELSE inputs[j].type = info.type /\ inputs[j].typeAttr}
    IN  IF hits = {} THEN 0
        ELSE CHOOSE j \in hits : \A k \in hits : j <= k

\* the for loop over formInfo.inputs from input i on; acc carries the
\* ledger, formInteractionCount and formFailures
RECURSIVE FormInputs(_, _, _)
FormInputs(inputs, i, acc) ==
    IF i > Len(inputs) THEN acc
    ELSE LET j == FirstMatch(inputs, inputs[i])
             fill(a) ==
                 Once(safeElementAction(incrementTested(a.t), inputs[j].beh),
                      LAMBDA r :
                          [t |-> IF r.ok THEN r.t
                                 ELSE addFailure(r.t, "FORM_INPUT_FAILED", "high", NoPage),
                           count |-> a.count + 1,
                           failures |-> IF r.ok THEN a.failures ELSE a.failures + 1])
         IN  IF j = 0 THEN FormInputs(inputs, i + 1, acc)
             ELSE FormInputs(inputs, i + 1, Once(acc, fill))

\* the body of the for loop over forms, for one form
TestForm(t, form) ==
    LET a == FormInputs(form.inputs, 1, [t |-> t, count |-> 0, failures |-> 0])
        t1 == IF a.count > 20 /\ 10 * a.failures > 8 * a.count
              THEN addFailure(a.t, "FORM_STUCK", "critical", NoPage) ELSE a.t
        t2 == IF form.hasSubmitButton
              THEN IF form.submitClickable THEN incrementTested(t1)
                   ELSE addFailure(incrementTested(t1), "SUBMIT_BUTTON_DISABLED",
                                   "critical", NoPage)
              ELSE addFailure(t1, "NO_SUBMIT_BUTTON", "medium", NoPage)
        formFailures == IF form.hasSubmitButton /\ ~form.submitClickable
                        THEN a.failures + 1 ELSE a.failures
    IN  IF 2 * formFailures > a.count
        THEN addFailure(t2, "FORM_MOSTLY_BROKEN", "critical", NoPage) ELSE t2

RECURSIVE FormsFrom(_, _, _)
FormsFrom(t, forms, i) ==
    IF i > Len(forms) THEN t
    ELSE FormsFrom(TestForm(t, forms[i]), forms, i + 1)

testAllForms(t, p) == FormsFrom(t, p.forms, 1)

(***************************************************************************)
(* testAllInteractiveElements: the ledger and the URL the page shows after  *)
(* the call.                                                               *)
(***************************************************************************)
\* page.$$(selector): the elements of page p matching the selector, in
\* document order
Matching(p, sel) == SelectSeq(p.elems, LAMBDA e : sel \in e.sels)

\* the close sequence: the first closeSelector that matches is clicked,
\* then the loop breaks
RECURSIVE CloseModal(_, _, _)
CloseModal(t, closers, k) ==
    IF k > Len(closers) THEN t
    ELSE IF closers[k] = "absent" THEN CloseModal(t, closers, k + 1)
    ELSE safeElementAction(t, closers[k]).t

\* the body of the loop over elements, for one element handle got while
\* the page showed `from`; st is the ledger and the URL the page shows now.
\* A handle of a document the page has left throws on evaluate.
TestElement(s, st, from, e) ==
    IF st.at # from \/ e.beh = "infoThrows" THEN
        [st EXCEPT !.t = addFailure(@, "ELEMENT_INTERACTION_ERROR", "high", NoPage)]
    ELSE Once(safeElementAction(st.t, e.beh),
              LAMBDA r :
                  IF ~r.ok THEN [st EXCEPT !.t = r.t]
                  ELSE IF e.navigates /\ e.href # "" THEN
                      \* the click loads the href: the response handler sees its status
                      [t |-> onResponse(r.t, PageOf(s, e.href).http), at |-> e.href]
                  ELSE IF e.modal THEN
                      [st EXCEPT !.t = CloseModal(r.t, PageOf(s, st.at).closers, 1)]
                  ELSE [st EXCEPT !.t = r.t])

RECURSIVE ElementsFrom(_, _, _, _, _)
ElementsFrom(s, st, from, elements, i) ==
    IF i > Len(elements) THEN st
    ELSE ElementsFrom(s, Once(st, LAMBDA v : TestElement(s, v, from, elements[i])),
                      from, elements, i + 1)

RECURSIVE SelectorsFrom(_, _, _)
SelectorsFrom(s, st, sel) ==
    IF sel \notin buttonSelectors THEN st
    ELSE SelectorsFrom(s,
             Once(st, LAMBDA v :
                 ElementsFrom(s, v, v.at, Matching(PageOf(s, v.at), sel), 1)),
             sel + 1)

testAllInteractiveElements(s, t, at) == SelectorsFrom(s, [t |-> t, at |-> at], 1)

(***************************************************************************)
(* checkForJavaScriptErrors: consoleErrors is always empty, so totalErrors *)
(* is the length of window.jsErrors.                                       *)
(***************************************************************************)
\* A check that fails the page from the threshold on: totalErrors >= 3.
checkForJavaScriptErrorsFromThreshold(t, p, pageUrl) ==
    IF p.jsCheckThrows
    THEN addWarning(t, "Could not check for JS errors", pageUrl)
    ELSE IF p.jsErrors >= CRITICAL_ERROR_THRESHOLD
    THEN addFailure(t, "EXCESSIVE_JS_ERRORS", "critical", pageUrl)
    ELSE IF p.jsErrors > 0 THEN addWarning(t, "JavaScript errors detected", pageUrl)
    ELSE t

checkForJavaScriptErrors(t, p, pageUrl) ==
    IF p.jsCheckThrows
    THEN \* catch (error)
         addWarning(t, "Could not check for JS errors", pageUrl)
    ELSE IF p.jsErrors > CRITICAL_ERROR_THRESHOLD
    THEN addFailure(t, "EXCESSIVE_JS_ERRORS", "critical", pageUrl)
    ELSE IF p.jsErrors > 0 THEN addWarning(t, "JavaScript errors detected", pageUrl)
    ELSE t

(***************************************************************************)
(* performComprehensiveNavigation: link extraction                         *)
(***************************************************************************)
\* URLs are absolute (a.href); these are the ones of the sites below that
\* are not plain same-host page URLs
ExternalUrls == {"http://other.example/", "http://other.example/x"}
FragmentUrls == {"/a#top"}
MailtoUrls == {"mailto:team@site.example"}
TelUrls == {"tel:5551234"}
BinaryUrls == {"/brochure.pdf"}

\* new URL(href).hostname
Hostname(url) == IF url \in ExternalUrls THEN "other.example"
                 ELSE IF url \in MailtoUrls \cup TelUrls THEN ""
                 ELSE "site.example"

\* A filter that forgets link.isInternal.
QualifiesAnyHost(href, base, visited) ==
    /\ href \notin FragmentUrls
    /\ href \notin MailtoUrls
    /\ href \notin TelUrls
    /\ href \notin BinaryUrls
    /\ href \notin visited
    /\ href # base

\* the .filter of processLinks
Qualifies(href, base, visited) ==
    /\ Hostname(href) = Hostname(base)
    /\ href \notin FragmentUrls
    /\ href \notin MailtoUrls
    /\ href \notin TelUrls
    /\ href \notin BinaryUrls
    /\ href \notin visited
    /\ href # base

\* the loop building `unique`
RECURSIVE Dedupe(_, _, _)
Dedupe(links, i, unique) ==
    IF i > Len(links) THEN unique
    ELSE Dedupe(links, i + 1,
             Once(unique, LAMBDA seen :
                 IF \E k \in 1..Len(seen) : seen[k] = links[i] THEN seen
                 ELSE Append(seen, links[i])))

\* unique.slice(0, 10)
LINKS_PER_PAGE == 10

Hrefs(elems) == [i \in 1..Len(elems) |-> elems[i].href]

\* An extraction that takes the links in document order: the nav links are
\* not put first.
ExtractLinksDocumentOrder(p, base, visited) ==
    LET allLinks == SelectSeq(p.elems, LAMBDA e : e.href # "")
        processLinks(links) ==
            SelectSeq(Hrefs(links), LAMBDA h : Qualifies(h, base, visited))
        unique == Dedupe(processLinks(allLinks), 1, <<>>)
    IN  SubSeq(unique, 1, IF Len(unique) < LINKS_PER_PAGE THEN Len(unique)
                          ELSE LINKS_PER_PAGE)

\* the page.evaluate of performComprehensiveNavigation, on page p
ExtractLinks(p, base, visited) ==
    LET allLinks == SelectSeq(p.elems, LAMBDA e : e.href # "")
        navLinks == SelectSeq(allLinks, LAMBDA e : e.inNav)
        otherLinks == SelectSeq(allLinks, LAMBDA e : ~e.inNav)
        processLinks(links) ==
            SelectSeq(Hrefs(links), LAMBDA h : Qualifies(h, base, visited))
        unique == Dedupe(processLinks(navLinks) \o processLinks(otherLinks), 1, <<>>)
    IN  SubSeq(unique, 1, IF Len(unique) < LINKS_PER_PAGE THEN Len(unique)
                          ELSE LINKS_PER_PAGE)

\* what Math.min(maxDepth, 4) gives for a maxDepth of the request body that
\* is not a number ('deep', {}): NaN, a value apart from the depths 0, 1, ...
\* with which every comparison is false
NaN == -1

\* the entry guard of performComprehensiveNavigation: TRUE when it returns at once
EnterGuard(depth, md, visited) ==
    (md # NaN /\ depth >= md) \/ Cardinality(visited) >= MAX_PAGES_TO_TEST

\* A link loop that forgets the page cap.
SkipLinkNoCap(href, visited) == href \in visited

\* A link loop that forgets visitedUrls.has(link.href).
SkipLinkCapOnly(href, visited) == Cardinality(visited) >= MAX_PAGES_TO_TEST

\* the guard of the link loop: TRUE when the link is skipped
SkipLink(href, visited) ==
    href \in visited \/ Cardinality(visited) >= MAX_PAGES_TO_TEST

\* a call performComprehensiveNavigation(page, base, tracker, md, depth, visited)
\* while the page shows p: the stack after the guard and the link extraction
Enter(stk, p, base, md, depth, visited) ==
    IF EnterGuard(depth, md, visited) THEN stk
    ELSE Append(stk, [links |-> ExtractLinks(p, base, visited), i |-> 1,
                      depth |-> depth, base |-> base])

\* Math.min(maxDepth, 4) of the orchestrator's call
\* A call that passes the requested maxDepth on as it is.
CrawlDepthUncapped(md) == md

CrawlDepth(md) == IF md = NaN THEN NaN ELSE IF md < 4 THEN md ELSE 4

(***************************************************************************)
(* The sites the engine is run on.                                         *)
(***************************************************************************)
\* the page URLs of a site, the root first
PathNames == <<"/", "/a", "/b", "/c", "/d", "/e", "/f", "/g", "/h", "/i", "/j",
               "/k", "/l", "/m", "/n", "/o", "/p", "/q", "/r", "/s">>

\* the longest link chain, the largest fully linked site, the largest
\* requested maxDepth and the most ledger operations explored
MaxChain == 6
MaxSitePages == 17
MaxRequestDepth == 5
MaxLedgerOps == 5

\* the most inputs of a form and the most buttons of a page explored
MaxInputs == 5
MaxButtons == 3

RECURSIVE Ascending(_)
Ascending(S) ==
    IF S = {} THEN <<>>
    ELSE LET m == CHOOSE x \in S : \A y \in S : x <= y
         IN  <<m>> \o Ascending(S \ {m})

\* a site of k pages in which page i carries, in a nav container, one anchor
\* to each page of Succ(i, k), in ascending order
GraphSite(k, Succ(_, _), navigates) ==
    [u \in {PathNames[i] : i \in 1..k} |->
        LET i == CHOOSE j \in 1..k : PathNames[j] = u
            to == Ascending(Succ(i, k))
        IN  Page(200, [n \in 1..Len(to) |-> Anchor(PathNames[to[n]], TRUE, navigates)],
                 <<>>)]

\* / -> /a -> /b -> ... : a link chain of k pages
ChainSite(k, navigates) ==
    GraphSite(k, LAMBDA i, n : IF i < n THEN {i + 1} ELSE {}, navigates)

\* a chain whose last page links back to the root, every page also to itself
RingSite(k, navigates) ==
    GraphSite(k, LAMBDA i, n : {i, IF i < n THEN i + 1 ELSE 1}, navigates)

\* every page links to every page
FullSite(k, navigates) == GraphSite(k, LAMBDA i, n : 1..n, navigates)

\* the root links to ten pages, the first of them to all the remaining
\* pages, and every other page back to the root
TreeSite(k) ==
    GraphSite(k, LAMBDA i, n : IF i = 1 THEN 2..11 ELSE IF i = 2 THEN 12..n ELSE {1},
              FALSE)

\* a root whose links answer 404, fail to load, answer 500, and load a page
\* with script errors that links on
FaultySite ==
    [u \in {"/", "/a", "/b", "/c", "/d", "/e"} |->
        CASE u = "/" -> Page(200, <<Anchor("/a", TRUE, FALSE), Anchor("/b", TRUE, FALSE),
                                    Anchor("/c", FALSE, FALSE), Anchor("/d", FALSE, FALSE),
                                    Anchor("/a", FALSE, FALSE)>>, <<>>)
          [] u = "/a" -> Page(404, <<Anchor("/e", TRUE, FALSE)>>, <<>>)
          [] u = "/b" -> Page(0, <<>>, <<>>)
          [] u = "/c" -> Page(500, <<>>, <<>>)
          [] u = "/d" -> [Page(200, <<Anchor("/b", TRUE, FALSE), Anchor("/e", TRUE, FALSE)>>,
                               <<>>) EXCEPT !.jsErrors = 4]
          [] OTHER -> [Page(200, <<Anchor("/", TRUE, FALSE)>>, <<>>)
                          EXCEPT !.jsErrors = 1, !.scrollThrows = TRUE]]

\* a page with a button of behaviour b1, a button that opens an overlay
\* whose close control has behaviour b2, a form of two inputs (or no form)
\* and a nav link to a page with one button of behaviour b2
WidgetSite(b1, b2, withForm) ==
    [u \in {"/", "/about"} |->
        IF u = "/" THEN
            [Page(200,
                  <<Button(b1), Element({1, 5}, "ok", "", FALSE, FALSE, TRUE),
                    Anchor("/about", TRUE, FALSE)>>,
                  IF withForm
                  THEN <<Form(<<Input("text", "who", TRUE, "ok"),
                                Input("email", "", TRUE, b1)>>,
                              TRUE, b2 = "ok")>>
                  ELSE <<>>)
                EXCEPT !.closers = <<"absent", b2, "ok">>]
        ELSE Page(200, <<Button(b2)>>, <<>>)]

\* a root that cannot be loaded or answers an error status, beside a page
\* with one working button
DownSite(http) ==
    [u \in {"/", "/a"} |->
        IF u = "/" THEN Page(http, <<>>, <<>>) ELSE Page(200, <<Button("ok")>>, <<>>)]

\* a site whose pages also link to another host, to a fragment, to mail
\* and phone targets and to a document; a click on the link to the other
\* host loads it (or not), and the page there links back into the site
MixedSite(navigates) ==
    LET junk == <<Anchor("http://other.example/", TRUE, navigates),
                  Anchor("/a#top", TRUE, FALSE),
                  Anchor("mailto:team@site.example", TRUE, FALSE),
                  Anchor("tel:5551234", FALSE, FALSE),
                  Anchor("/brochure.pdf", FALSE, FALSE)>>
    IN  [u \in {"/", "/a", "/b", "/c", "http://other.example/"} |->
            CASE u = "/" -> Page(200, junk \o <<Anchor("/a", FALSE, FALSE)>>, <<>>)
              [] u = "/a" -> Page(200, <<Anchor("/b", TRUE, FALSE)>> \o junk, <<>>)
              [] u = "/c" -> Page(200, <<Anchor("/a", TRUE, FALSE)>>, <<>>)
              [] u = "http://other.example/" ->
                     Page(200, <<Anchor("http://other.example/x", TRUE, FALSE),
                                 Anchor("/c", TRUE, FALSE)>>, <<>>)
              [] OTHER -> Page(200, <<>>, <<>>)]

\* a site of one page without links
PlainSite(elems, forms) == [u \in {"/"} |-> Page(200, elems, forms)]

\* the ways an element matches buttonSelectors: a button, a button of class
\* btn, an element with role=button and an onclick handler
SelectorMatches == {{1}, {1, 5}, {4, 8}}

\* pages of up to MaxButtons working elements
ButtonSites ==
    {PlainSite([i \in 1..n |-> Element(m[i], "ok", "", FALSE, FALSE, FALSE)], <<>>) :
        n \in 0..MaxButtons, m \in [1..MaxButtons -> SelectorMatches]}

\* pages of one button of any behaviour
SoloSites == {PlainSite(<<Button(b)>>, <<>>) : b \in Behaviours}

\* the names of the inputs of a form
InputNames == <<"who", "mail", "age", "city", "note", "more", "rest">>

\* a form of n text inputs, the last d of them disabled, with names or
\* without, and a submit button that is "absent", "dead" or "ok"
FormOf(n, d, named, submit) ==
    Form([i \in 1..n |->
             Input("text", IF named THEN InputNames[i] ELSE "", TRUE,
                   IF i > n - d THEN "disabled" ELSE "ok")],
         submit # "absent", submit = "ok")

\* pages of one form
FormSites ==
    {PlainSite(<<>>, <<FormOf(n, d, named, submit)>>) :
        n \in 0..MaxInputs, d \in 0..MaxInputs, named \in BOOLEAN,
        submit \in {"absent", "dead", "ok"}}

\* a working root with one nav link, to a page that answers http (0: the
\* navigation to it throws)
DeadLinkSite(http) ==
    [u \in {"/", "/gone"} |->
        IF u = "/" THEN Page(200, <<Anchor("/gone", TRUE, FALSE)>>, <<>>)
        ELSE Page(http, <<>>, <<>>)]

\* a root whose links outside the nav container come first in the
\* document, with targets linked twice, inside and outside the container
OrderSite ==
    [u \in {"/", "/a", "/b", "/c", "/d", "/e"} |->
        IF u = "/"
        THEN Page(200, <<Anchor("/c", FALSE, FALSE), Anchor("/b", TRUE, FALSE),
                         Anchor("/a", FALSE, FALSE), Anchor("/a", TRUE, FALSE),
                         Anchor("/b", TRUE, FALSE), Anchor("/d", FALSE, FALSE),
                         Anchor("/c", TRUE, FALSE), Anchor("/e", FALSE, FALSE),
                         Anchor("/d", FALSE, FALSE), Anchor("/", FALSE, FALSE),
                         Anchor("/brochure.pdf", FALSE, FALSE)>>, <<>>)
        ELSE Page(200, <<Anchor("/", FALSE, FALSE)>>, <<>>)]

CrawlSites ==
    {ChainSite(MaxChain, n) : n \in BOOLEAN}
        \cup {RingSite(3, n) : n \in BOOLEAN}
        \cup {FullSite(MaxSitePages, FALSE), TreeSite(MaxSitePages), FaultySite}
        \cup {MixedSite(n) : n \in BOOLEAN}
        \cup {DeadLinkSite(h) : h \in {0, 404, 500}}
        \cup {OrderSite}

\* a page whose one element, of behaviour b, loads /a when it is clicked
ClickSite(b) ==
    [u \in {"/", "/a"} |->
        IF u = "/" THEN Page(200, <<Element({1}, b, "/a", FALSE, TRUE, FALSE)>>, <<>>)
        ELSE Page(200, <<>>, <<>>)]

\* a page of a button of behaviour b followed by a working button
PairSite(b) == PlainSite(<<Button(b), Button("ok")>>, <<>>)

\* a page of one form with one input of behaviour b and a working submit button
InputSite(b) == PlainSite(<<>>, <<Form(<<Input("text", "who", TRUE, b)>>, TRUE, TRUE)>>)

\* a page of one button that opens an overlay whose close controls are
\* closers, in closeSelectors order
ModalSite(closers) ==
    [u \in {"/"} |->
        [Page(200, <<Element({1}, "ok", "", FALSE, FALSE, TRUE)>>, <<>>)
            EXCEPT !.closers = closers]]

ModalSites == {ModalSite(c) : c \in [1..3 -> {"absent", "hidden", "disabled", "ok"}]}

\* the most collected script errors of a page explored
MaxJsErrors == 5

\* a page without elements that has collected n script errors, or whose
\* page.evaluate of the check throws
JsSite(n, throws) ==
    [u \in {"/"} |->
        [Page(200, <<>>, <<>>) EXCEPT !.jsErrors = n, !.jsCheckThrows = throws]]

JsSites == {JsSite(n, th) : n \in 0..MaxJsErrors, th \in BOOLEAN}

ActionSites ==
    {ClickSite(b) : b \in Behaviours} \cup {PairSite(b) : b \in Behaviours}
        \cup {InputSite(b) : b \in Behaviours}

WidgetSites ==
    {WidgetSite(b1, b2, f) :
        b1 \in Behaviours, b2 \in Behaviours \ {"infoThrows"}, f \in BOOLEAN}
        \cup ButtonSites \cup SoloSites \cup FormSites \cup ActionSites
        \cup ModalSites \cup JsSites

BatchSites ==
    {ChainSite(2, FALSE), WidgetSite("ok", "ok", TRUE),
     WidgetSite("actionFails", "hidden", FALSE),
     DownSite(0), DownSite(404), DownSite(500)}

(***************************************************************************)
(* app.post('/batch-review'): the decision                                 *)
(***************************************************************************)
maxAttempts == 2

\* aiReason: null, or where the text comes from and what it is made of
Reason(src, cause, parts) == [src |-> src, cause |-> cause, parts |-> parts]
NullReason == Reason("null", "", <<>>)

\* what the judgment service can do: answer text with or without
\* 'RESULT: PASS', 'RESULT: FAIL' and a 'REASON:' line, answer a non-OK
\* status, or fail (fetch throws)
JudgeAnswers ==
    {[ok |-> TRUE, pass |-> ps, fail |-> f, reason |-> r, throws |-> FALSE] :
        ps \in BOOLEAN, f \in BOOLEAN, r \in BOOLEAN}
      \cup {[ok |-> FALSE, pass |-> FALSE, fail |-> FALSE, reason |-> FALSE, throws |-> th] :
              th \in BOOLEAN}

NoJudge == [ok |-> FALSE, pass |-> FALSE, fail |-> FALSE, reason |-> FALSE, throws |-> FALSE]

\* the judge's verdict as the code reads it: the PASS pattern is tried first
JudgeDecision(j) ==
    IF j.ok /\ j.pass THEN "PASS"
    ELSE IF j.ok /\ j.fail THEN "FAIL"
    ELSE "PASS"

JudgeReason(j) ==
    IF j.ok /\ ~j.pass /\ j.fail
    THEN IF j.reason THEN Reason("judge", "", <<>>) ELSE Reason("judgeDefault", "", <<>>)
    ELSE NullReason

\* A reasons array that leaves the HTTP status out.
SynthReasonNoStatus(summary, http) ==
    IF summary.criticalFailures > 0
    THEN Reason("synth", "",
                <<[what |-> "critical failures", n |-> summary.criticalFailures]>>)
    ELSE Reason("fallback", "", <<>>)

\* A reasons array joined as it is: '|| Multiple functionality issues' is
\* missing, so an empty array gives the empty text.
SynthReasonNoFallback(summary, http) ==
    LET parts ==
            (IF summary.criticalFailures > 0
             THEN <<[what |-> "critical failures", n |-> summary.criticalFailures]>>
             ELSE <<>>)
         \o (IF 10 * summary.brokenElementRatio.num > 3 * summary.brokenElementRatio.den
             THEN <<[what |-> "% broken elements",
                     n |-> (100 * summary.brokenElementRatio.num)
                               \div summary.brokenElementRatio.den]>>
             ELSE <<>>)
         \o (IF http >= 400 THEN <<[what |-> "HTTP error", n |-> http]>> ELSE <<>>)
    IN  Reason("synth", "", parts)

\* the reasons array; brokenElementRatio > 0.3 is 10 * num > 3 * den
SynthReason(summary, http) ==
    LET parts ==
            (IF summary.criticalFailures > 0
             THEN <<[what |-> "critical failures", n |-> summary.criticalFailures]>>
             ELSE <<>>)
         \o (IF 10 * summary.brokenElementRatio.num > 3 * summary.brokenElementRatio.den
             THEN <<[what |-> "% broken elements",
                     n |-> (100 * summary.brokenElementRatio.num)
                               \div summary.brokenElementRatio.den]>>
             ELSE <<>>)
         \o (IF http >= 400 THEN <<[what |-> "HTTP error", n |-> http]>> ELSE <<>>)
    IN  IF parts = <<>> THEN Reason("fallback", "", <<>>) ELSE Reason("synth", "", parts)

\* A merge that takes the judge's verdict as it is.
MergeIgnoresHeuristic(decision, summary) == decision

\* if (testSummary.shouldFail) finalDecision = 'FAIL'
Merge(decision, summary) == IF summary.shouldFail THEN "FAIL" ELSE decision

(***************************************************************************)
(* app.post('/batch-review'): the handler, one action per step             *)
(***************************************************************************)
url == urls[urlIdx]

\* for (const url of urls): the next url gets a new ledger
ForUrl ==
    /\ pc = "for"
    /\ urlIdx <= Len(urls)
    /\ tracker' = FailureTracker
    /\ success' = FALSE
    /\ attempts' = 0
    /\ navLog' = <<>>
    /\ visitedUrls' = {}
    /\ stack' = <<>>
    /\ pc' = "while"
    /\ UNCHANGED <<envVars, urlIdx, results, response, pagesOpened, pagesClosed, pageAt,
                   status, testSummary, finalDecision, aiReason, judge, err,
                   pageMetrics, trail, ops>>

\* if (attempts === maxAttempts) { addFailure('MAX_ATTEMPTS_REACHED'); break; }
LastAttemptGuard(n) == n = maxAttempts

\* A retry loop that only counts attempts: while (attempts < maxAttempts).
WhileAttemptIgnoresSuccess ==
    /\ pc = "while"
    /\ IF attempts >= maxAttempts THEN
           /\ pc' = "for"
           /\ urlIdx' = urlIdx + 1
           /\ UNCHANGED <<attempts, tracker, pagesOpened, pageAt, trail>>
       ELSE IF LastAttemptGuard(attempts + 1) THEN
           /\ attempts' = attempts + 1
           /\ tracker' = addFailure(tracker, "MAX_ATTEMPTS_REACHED", "critical", NoPage)
           /\ pc' = "for"
           /\ urlIdx' = urlIdx + 1
           /\ UNCHANGED <<pagesOpened, pageAt, trail>>
       ELSE
           /\ attempts' = attempts + 1
           /\ pagesOpened' = pagesOpened + 1
           /\ pageAt' = "about:blank"
           /\ trail' = Append(trail, [u |-> urlIdx, n |-> attempts + 1, ev |-> "opened"])
           /\ pc' = "goto"
           /\ UNCHANGED <<tracker, urlIdx>>
    /\ UNCHANGED <<envVars, success, results, response, pagesClosed, navLog, status,
                   testSummary, finalDecision, aiReason, judge, err, stack,
                   visitedUrls, pageMetrics, ops>>

\* while (!success && attempts < maxAttempts): the loop ends, or the last
\* attempt is cut short, or browser.newPage() opens the attempt's page
WhileAttempt ==
    /\ pc = "while"
    /\ IF success \/ attempts >= maxAttempts THEN
           /\ pc' = "for"
           /\ urlIdx' = urlIdx + 1
           /\ UNCHANGED <<attempts, tracker, pagesOpened, pageAt, trail>>
       ELSE IF LastAttemptGuard(attempts + 1) THEN
           /\ attempts' = attempts + 1
           /\ tracker' = addFailure(tracker, "MAX_ATTEMPTS_REACHED", "critical", NoPage)
           /\ pc' = "for"
           /\ urlIdx' = urlIdx + 1
           /\ UNCHANGED <<pagesOpened, pageAt, trail>>
       ELSE
           /\ attempts' = attempts + 1
           /\ pagesOpened' = pagesOpened + 1
           /\ pageAt' = "about:blank"
           /\ trail' = Append(trail, [u |-> urlIdx, n |-> attempts + 1, ev |-> "opened"])
           /\ pc' = "goto"
           /\ UNCHANGED <<tracker, urlIdx>>
    /\ UNCHANGED <<envVars, success, results, response, pagesClosed, navLog, status,
                   testSummary, finalDecision, aiReason, judge, err, stack,
                   visitedUrls, pageMetrics, ops>>

\* browser.newPage() throws: it is outside the attempt's try, so the
\* handler's own catch answers 500
NewPageThrows ==
    /\ pc = "while"
    /\ ~success /\ attempts < maxAttempts /\ ~LastAttemptGuard(attempts + 1)
    /\ attempts' = attempts + 1
    /\ response' = "error500"
    /\ pc' = "done"
    /\ UNCHANGED <<envVars, urlIdx, tracker, success, results, pagesOpened, pagesClosed,
                   pageAt, navLog, status, testSummary, finalDecision, aiReason, judge,
                   err, stack, visitedUrls, pageMetrics, trail, ops>>

\* an awaited page call of the attempt throws: control goes to catch (err)
Throw(cause) ==
    /\ err' = cause
    /\ pc' = "catch"
    /\ UNCHANGED <<envVars, urlIdx, tracker, success, attempts, results, response,
                   pagesOpened, pagesClosed, pageAt, navLog, status, testSummary,
                   finalDecision, aiReason, judge, stack, visitedUrls, pageMetrics,
                   trail, ops>>

\* const response = await page.goto(url): the load of the root page
RootGoto ==
    /\ pc = "goto"
    /\ LET http == PageOf(site, url).http
       IN  IF http = 0 THEN
                /\ navLog' = Append(navLog, url)
                /\ err' = "page.goto"
                /\ pc' = "catch"
                /\ UNCHANGED <<envVars, urlIdx, tracker, success, attempts, results,
                               response, pagesOpened, pagesClosed, pageAt, status,
                               testSummary, finalDecision, aiReason, judge, stack,
                               visitedUrls, pageMetrics, trail, ops>>
           ELSE /\ navLog' = Append(navLog, url)
                /\ pageAt' = url
                /\ status' = http
                /\ tracker' =
                       IF http >= 400
                       THEN addFailure(onResponse(tracker, http), "HTTP_ERROR",
                                       "critical", NoPage)
                       ELSE tracker
                /\ pc' = "metrics"
                /\ UNCHANGED <<envVars, urlIdx, success, attempts, results, response,
                               pagesOpened, pagesClosed, testSummary, finalDecision,
                               aiReason, judge, err, stack, visitedUrls, pageMetrics,
                               trail, ops>>

\* const pageMetrics = await page.evaluate(...)
Metrics ==
    /\ pc = "metrics"
    /\ \E throws \in BOOLEAN :
         IF throws THEN Throw("page.evaluate")
         ELSE /\ LET p == PageOf(site, pageAt)
                 IN  pageMetrics' =
                       [forms |-> Len(p.forms),
                        buttons |-> Len(SelectSeq(p.elems,
                                        LAMBDA e : e.sels \cap {1, 2, 3, 4} # {})),
                        links |-> Len(SelectSeq(p.elems, LAMBDA e : e.href # "")),
                        hasNavigation |-> hasNavigation(p)]
              /\ pc' = "tests"
              /\ UNCHANGED <<envVars, urlIdx, tracker, success, attempts, results,
                             response, pagesOpened, pagesClosed, pageAt, navLog, status,
                             testSummary, finalDecision, aiReason, judge, err, stack,
                             visitedUrls, trail, ops>>

\* the tests run on a loaded page: scrolling, forms, interactive elements
PageTests(s, t, at, withForms, withElements) ==
    LET p == PageOf(s, at)
        t1 == performHumanLikeScrolling(t, p)
        t2 == IF withForms THEN testAllForms(t1, p) ELSE t1
    IN  IF withElements THEN testAllInteractiveElements(s, t2, at)
        ELSE [t |-> t2, at |-> at]

\* the comprehensive testing sequence on the root page
RootTests ==
    /\ pc = "tests"
    /\ LET r == PageTests(site, tracker, pageAt, pageMetrics.forms > 0,
                          pageMetrics.buttons > 0 \/ pageMetrics.links > 0)
       IN  /\ tracker' = r.t
           /\ pageAt' = r.at
    /\ pc' = IF deepTest /\ pageMetrics.hasNavigation THEN "crawl" ELSE "jscheck"
    /\ UNCHANGED <<envVars, urlIdx, success, attempts, results, response, pagesOpened,
                   pagesClosed, navLog, status, testSummary, finalDecision, aiReason,
                   judge, err, stack, visitedUrls, pageMetrics, trail, ops>>
(***************************************************************************)
(* performComprehensiveNavigation, one action per step of the link loop    *)
(***************************************************************************)
top == stack[Len(stack)]

link == top.links[top.i]

\* A link loop whose `continue` skips the step to the next link.
ContinueStuck(stk) == stk

\* stack with the top frame's loop moved on to the next link
Continue(stk) == [stk EXCEPT ![Len(stk)].i = @ + 1]

orchUnchanged == <<envVars, urlIdx, success, attempts, results, response, pagesOpened,
                   pagesClosed, status, testSummary, finalDecision, aiReason, judge,
                   err, pageMetrics, trail, ops>>

\* await performComprehensiveNavigation(page, url, failureTracker, Math.min(maxDepth, 4))
CrawlStart ==
    /\ pc = "crawl"
    /\ visitedUrls' = {}
    /\ stack' = Enter(<<>>, PageOf(site, pageAt), url, CrawlDepth(maxDepth), 0, {})
    /\ pc' = "links"
    /\ UNCHANGED <<orchUnchanged, tracker, pageAt, navLog>>

\* A link loop that marks a link visited only when its page loads.
CrawlLinkMarksLoaded ==
    /\ pc = "links"
    /\ stack # <<>>
    /\ top.i <= Len(top.links)
    /\ IF SkipLink(link, visitedUrls) THEN
           /\ stack' = Continue(stack)
           /\ UNCHANGED <<visitedUrls, tracker, pc>>
       ELSE
           /\ visitedUrls' = IF PageOf(site, link).http \in 1..399
                             THEN visitedUrls \cup {link} ELSE visitedUrls
           /\ tracker' = [tracker EXCEPT !.pagesVisited = Append(@, link)]
           /\ pc' = "nav"
           /\ UNCHANGED stack
    /\ UNCHANGED <<orchUnchanged, pageAt, navLog>>

\* for (const link of links): the guard, then visitedUrls.add and pagesVisited.push
CrawlLink ==
    /\ pc = "links"
    /\ stack # <<>>
    /\ top.i <= Len(top.links)
    /\ IF SkipLink(link, visitedUrls) THEN
           /\ stack' = Continue(stack)
           /\ UNCHANGED <<visitedUrls, tracker, pc>>
       ELSE
           /\ visitedUrls' = visitedUrls \cup {link}
           /\ tracker' = [tracker EXCEPT !.pagesVisited = Append(@, link)]
           /\ pc' = "nav"
           /\ UNCHANGED stack
    /\ UNCHANGED <<orchUnchanged, pageAt, navLog>>

\* A link loop without the try around page.goto: the error of a link goes
\* to the caller's catch (err).
CrawlGotoUncaught ==
    /\ pc = "nav"
    /\ LET http == PageOf(site, link).http
       IN  IF http = 0 THEN
               /\ err' = "page.goto"
               /\ navLog' = Append(navLog, link)
               /\ pc' = "catch"
               /\ UNCHANGED <<tracker, stack, pageAt>>
           ELSE IF http >= 400 THEN
               /\ tracker' = addFailure(onResponse(tracker, http), "PAGE_LOAD_FAILED",
                                        "critical", link)
               /\ navLog' = Append(navLog, link)
               /\ pageAt' = link
               /\ stack' = Continue(stack)
               /\ pc' = "links"
               /\ UNCHANGED err
           ELSE
               /\ navLog' = Append(navLog, link)
               /\ pageAt' = link
               /\ pc' = "visit"
               /\ UNCHANGED <<tracker, stack, err>>
    /\ UNCHANGED <<envVars, urlIdx, success, attempts, results, response, pagesOpened,
                   pagesClosed, status, testSummary, finalDecision, aiReason, judge,
                   pageMetrics, trail, ops, visitedUrls>>

\* A status check that only stops at server errors: if (status >= 500).
CrawlGotoServerErrorsOnly ==
    /\ pc = "nav"
    /\ LET http == PageOf(site, link).http
       IN  IF http = 0 THEN
               /\ tracker' = addFailure(tracker, "NAVIGATION_ERROR", "high", link)
               /\ navLog' = Append(navLog, link)
               /\ stack' = Continue(stack)
               /\ pc' = "links"
               /\ UNCHANGED pageAt
           ELSE IF http >= 500 THEN
               /\ tracker' = addFailure(onResponse(tracker, http), "PAGE_LOAD_FAILED",
                                        "critical", link)
               /\ navLog' = Append(navLog, link)
               /\ pageAt' = link
               /\ stack' = Continue(stack)
               /\ pc' = "links"
           ELSE
               /\ navLog' = Append(navLog, link)
               /\ pageAt' = link
               /\ pc' = "visit"
               /\ tracker' = onResponse(tracker, http)
               /\ UNCHANGED stack
    /\ UNCHANGED <<orchUnchanged, visitedUrls>>

\* const response = await page.goto(link.href) and the status check
CrawlGoto ==
    /\ pc = "nav"
    /\ LET http == PageOf(site, link).http
       IN  IF http = 0 THEN
               \* catch (navError)
               /\ tracker' = addFailure(tracker, "NAVIGATION_ERROR", "high", link)
               /\ navLog' = Append(navLog, link)
               /\ stack' = Continue(stack)
               /\ pc' = "links"
               /\ UNCHANGED pageAt
           ELSE IF http >= 400 THEN
               /\ tracker' = addFailure(onResponse(tracker, http), "PAGE_LOAD_FAILED",
                                        "critical", link)
               /\ navLog' = Append(navLog, link)
               /\ pageAt' = link
               /\ stack' = Continue(stack)
               /\ pc' = "links"
           ELSE
               /\ navLog' = Append(navLog, link)
               /\ pageAt' = link
               /\ pc' = "visit"
               /\ UNCHANGED <<tracker, stack>>
    /\ UNCHANGED <<orchUnchanged, visitedUrls>>

\* if (currentDepth < maxDepth - 1)
Descends(depth, md) == md # NaN /\ depth < md - 1

\* the tests on the crawled page, then the recursive call from it
CrawlVisit ==
    /\ pc = "visit"
    /\ LET r == PageTests(site, tracker, pageAt, TRUE, TRUE)
           stk == Continue(stack)
           md == CrawlDepth(maxDepth)
       IN  /\ tracker' = checkForJavaScriptErrors(r.t, PageOf(site, r.at), link)
           /\ pageAt' = r.at
           /\ stack' = IF Descends(top.depth, md)
                       THEN Enter(stk, PageOf(site, r.at), link, md, top.depth + 1,
                                  visitedUrls)
                       ELSE stk
    /\ pc' = "links"
    /\ UNCHANGED <<orchUnchanged, visitedUrls, navLog>>

\* the link loop of a call ends: the call returns to its caller
CrawlReturn ==
    /\ pc = "links"
    /\ stack # <<>>
    /\ top.i > Len(top.links)
    /\ stack' = SubSeq(stack, 1, Len(stack) - 1)
    /\ UNCHANGED <<orchUnchanged, tracker, pageAt, navLog, visitedUrls, pc>>

\* the outermost call has returned: await checkForJavaScriptErrors(page, failureTracker)
CrawlDone ==
    /\ pc = "links"
    /\ stack = <<>>
    /\ pc' = "jscheck"
    /\ UNCHANGED <<orchUnchanged, tracker, pageAt, navLog, visitedUrls, stack>>
(***************************************************************************)
(* app.post('/batch-review'): from the JS-error check to the result        *)
(***************************************************************************)
JsCheck ==
    /\ pc = "jscheck"
    /\ tracker' = checkForJavaScriptErrors(tracker, PageOf(site, pageAt), "main")
    /\ pc' = "mobile"
    /\ UNCHANGED <<orchUnchanged, pageAt, navLog, visitedUrls, stack>>

\* the mobile-viewport check: page.evaluate throws, or reports overflow or none
Mobile ==
    /\ pc = "mobile"
    /\ \E outcome \in {"throws", "overflow", "fits"} :
         IF outcome = "throws" THEN Throw("page.evaluate")
         ELSE /\ tracker' =
                    IF outcome = "overflow"
                    THEN addWarning(tracker,
                             "Potential mobile responsiveness issues detected", NoPage)
                    ELSE tracker
              /\ pc' = "snapshot"
              /\ UNCHANGED <<orchUnchanged, pageAt, navLog, visitedUrls, stack>>

\* const htmlSnapshot = await page.content(); const testSummary = getSummary();
\* let finalDecision = 'PASS'; let aiReason = null
Snapshot ==
    /\ pc = "snapshot"
    /\ \E throws \in BOOLEAN :
         IF throws THEN Throw("page.content")
         ELSE /\ testSummary' = getSummary(tracker)
              /\ finalDecision' = "PASS"
              /\ aiReason' = NullReason
              /\ judge' = NoJudge
              /\ pc' = IF hasKey THEN "judge" ELSE "merge"
              /\ UNCHANGED <<envVars, urlIdx, tracker, success, attempts, results,
                             response, pagesOpened, pagesClosed, pageAt, navLog, status,
                             err, stack, visitedUrls, pageMetrics, trail, ops>>

\* if (process.env.OPENAI_API_KEY) { try { fetch ... } catch (aiError) { ... } }
Judge ==
    /\ pc = "judge"
    /\ \E j \in JudgeAnswers :
         /\ judge' = j
         /\ finalDecision' = JudgeDecision(j)
         /\ aiReason' = JudgeReason(j)
         /\ tracker' =
                IF j.throws
                THEN addWarning(tracker, "AI evaluation failed, using local evaluation",
                                NoPage)
                ELSE IF ~j.ok
                THEN addWarning(tracker,
                         "AI evaluation unavailable, using local evaluation", NoPage)
                ELSE tracker
    /\ pc' = "merge"
    /\ UNCHANGED <<envVars, urlIdx, success, attempts, results, response, pagesOpened,
                   pagesClosed, pageAt, navLog, status, testSummary, err, stack,
                   visitedUrls, pageMetrics, trail, ops>>

\* A merge that writes the synthesized reason over the judge's: the test
\* if (!aiReason) is missing.
MergeStepOverwrites ==
    /\ pc = "merge"
    /\ finalDecision' = Merge(finalDecision, testSummary)
    /\ aiReason' = IF testSummary.shouldFail
                   THEN SynthReason(testSummary, status)
                   ELSE aiReason
    /\ pc' = "screenshot"
    /\ UNCHANGED <<envVars, urlIdx, tracker, success, attempts, results, response,
                   pagesOpened, pagesClosed, pageAt, navLog, status, testSummary, judge,
                   err, stack, visitedUrls, pageMetrics, trail, ops>>

\* if (testSummary.shouldFail) { finalDecision = 'FAIL'; if (!aiReason) ... }
MergeStep ==
    /\ pc = "merge"
    /\ finalDecision' = Merge(finalDecision, testSummary)
    /\ aiReason' = IF testSummary.shouldFail /\ aiReason = NullReason
                   THEN SynthReason(testSummary, status)
                   ELSE aiReason
    /\ pc' = "screenshot"
    /\ UNCHANGED <<envVars, urlIdx, tracker, success, attempts, results, response,
                   pagesOpened, pagesClosed, pageAt, navLog, status, testSummary, judge,
                   err, stack, visitedUrls, pageMetrics, trail, ops>>

\* failures.slice(0, 10)
RESULT_FAILURES == 10

Slice(seq, n) == SubSeq(seq, 1, IF Len(seq) < n THEN Len(seq) ELSE n)

\* scroll to top, page.screenshot, the storage insert (its errors are
\* caught), results.push({...}), success = true
Screenshot ==
    /\ pc = "screenshot"
    /\ \E throws \in BOOLEAN :
         IF throws THEN Throw("page.screenshot")
         ELSE /\ results' = Append(results,
                    [url |-> url, finalDecision |-> finalDecision,
                     combinedReasons |-> aiReason, testFailed |-> FALSE,
                     judge |-> judge, status |-> status,
                     testSummary |-> testSummary,
                     failures |-> Slice(tracker.failures, RESULT_FAILURES),
                     criticalFailures |-> tracker.criticalFailures])
              /\ success' = TRUE
              /\ trail' = Append(trail, [u |-> urlIdx, n |-> attempts, ev |-> "result"])
              /\ pc' = "finally"
              /\ UNCHANGED <<envVars, urlIdx, tracker, attempts, response, pagesOpened,
                             pagesClosed, pageAt, navLog, status, testSummary,
                             finalDecision, aiReason, judge, err, stack, visitedUrls,
                             pageMetrics, ops>>

\* catch (err): the failure result when the budget is spent, else the backoff
\* wait of 3000 * attempts ms
Catch ==
    /\ pc = "catch"
    /\ IF attempts = maxAttempts THEN
           /\ results' = Append(results,
                  [url |-> url, finalDecision |-> "FAIL",
                   combinedReasons |-> Reason("execution", err, <<>>),
                   testFailed |-> TRUE, judge |-> NoJudge, status |-> 0,
                   testSummary |-> getSummary(FailureTracker),
                   failures |-> <<>>, criticalFailures |-> <<>>])
           /\ trail' = Append(trail, [u |-> urlIdx, n |-> attempts, ev |-> "result"])
       ELSE
           /\ trail' = Append(trail, [u |-> urlIdx, n |-> attempts, ev |-> "backoff"])
           /\ UNCHANGED results
    /\ pc' = "finally"
    /\ UNCHANGED <<envVars, urlIdx, tracker, success, attempts, response, pagesOpened,
                   pagesClosed, pageAt, navLog, status, testSummary, finalDecision,
                   aiReason, judge, err, stack, visitedUrls, pageMetrics, ops>>

\* A handler that closes the page after results.push instead of in finally.
FinallyOnSuccess ==
    /\ pc = "finally"
    /\ pagesClosed' = IF success THEN pagesClosed + 1 ELSE pagesClosed
    /\ pc' = "while"
    /\ UNCHANGED <<envVars, urlIdx, tracker, success, attempts, results, response,
                   pagesOpened, pageAt, navLog, status, testSummary, finalDecision,
                   aiReason, judge, err, stack, visitedUrls, pageMetrics, trail, ops>>

\* finally { await page.close() }
Finally ==
    /\ pc = "finally"
    /\ pagesClosed' = pagesClosed + 1
    /\ pc' = "while"
    /\ UNCHANGED <<envVars, urlIdx, tracker, success, attempts, results, response,
                   pagesOpened, pageAt, navLog, status, testSummary, finalDecision,
                   aiReason, judge, err, stack, visitedUrls, pageMetrics, trail, ops>>

\* the for loop is over: res.json({summary, results, stats, ...})
Respond ==
    /\ pc = "for"
    /\ urlIdx > Len(urls)
    /\ response' = "json"
    /\ pc' = "done"
    /\ UNCHANGED <<envVars, urlIdx, tracker, success, attempts, results, pagesOpened,
                   pagesClosed, pageAt, navLog, status, testSummary, finalDecision,
                   aiReason, judge, err, stack, visitedUrls, pageMetrics, trail, ops>>

(***************************************************************************)
(* Specifications                                                          *)
(***************************************************************************)
NoSummary == getSummary(FailureTracker)

InitWith(sites, batches, depths, keys, start) ==
    /\ site \in sites
    /\ urls \in batches
    /\ deepTest \in BOOLEAN
    /\ maxDepth \in depths
    /\ hasKey \in keys
    /\ pc = start
    /\ urlIdx = 1
    /\ tracker = FailureTracker
    /\ success = FALSE
    /\ attempts = 0
    /\ results = <<>>
    /\ response = "none"
    /\ pagesOpened = 0
    /\ pagesClosed = 0
    /\ pageAt = "about:blank"
    /\ navLog = <<>>
    /\ status = 0
    /\ testSummary = NoSummary
    /\ finalDecision = "PASS"
    /\ aiReason = NullReason
    /\ judge = NoJudge
    /\ err = ""
    /\ stack = <<>>
    /\ visitedUrls = {}
    /\ pageMetrics = [forms |-> 0, buttons |-> 0, links |-> 0, hasNavigation |-> FALSE]
    /\ trail = <<>>
    /\ ops = 0
    /\ events = [n |-> 0, last |-> PageEvent("none", <<>>, "", <<>>, 0)]
    /\ rateLimitMap = NoClients
    /\ clock = 0
    /\ served = [ip \in Clients |-> <<>>]

\* a batch request of up to two urls of a small site
Init ==
    InitWith(BatchSites, {<<>>, <<"/">>, <<"/", "/a">>}, {MAX_DEPTH}, BOOLEAN,
             "for")

Next ==
    \/ ForUrl
    \/ WhileAttempt
    \/ NewPageThrows
    \/ RootGoto
    \/ Metrics
    \/ RootTests
    \/ CrawlStart
    \/ CrawlLink
    \/ CrawlGoto
    \/ CrawlVisit
    \/ CrawlReturn
    \/ CrawlDone
    \/ JsCheck
    \/ Mobile
    \/ Snapshot
    \/ Judge
    \/ MergeStep
    \/ Screenshot
    \/ Catch
    \/ Finally
    \/ Respond

Spec == Init /\ [][Next]_vars

\* one url of a site with links to crawl
InitCrawl ==
    InitWith(CrawlSites, {<<"/">>}, (0..MaxRequestDepth) \cup {NaN}, BOOLEAN, "for")

SpecCrawl == InitCrawl /\ [][Next]_vars

\* one url of a site with buttons, an overlay and a form
InitWidgets == InitWith(WidgetSites, {<<"/">>}, {MAX_DEPTH}, BOOLEAN, "for")

SpecWidgets == InitWidgets /\ [][Next]_vars

\* the steps the handler takes by itself: each awaited page operation
\* returns or throws.  The answer of the judgment service is not among
\* them: fetch is called without a timeout or an abort signal.
Handler ==
    \/ ForUrl
    \/ WhileAttempt
    \/ NewPageThrows
    \/ RootGoto
    \/ Metrics
    \/ RootTests
    \/ CrawlStart
    \/ CrawlLink
    \/ CrawlGoto
    \/ CrawlVisit
    \/ CrawlReturn
    \/ CrawlDone
    \/ JsCheck
    \/ Mobile
    \/ Snapshot
    \/ MergeStep
    \/ Screenshot
    \/ Catch
    \/ Finally
    \/ Respond

\* one url of a site with cycles and self-links, with dead links, or with
\* more pages than the crawl may visit
FairSites ==
    {RingSite(3, n) : n \in BOOLEAN} \cup {TreeSite(MaxSitePages), FaultySite}

InitFair == InitWith(FairSites, {<<"/">>}, 0..MaxRequestDepth, BOOLEAN, "for")

SpecFair == InitFair /\ [][Next]_vars /\ WF_vars(Handler)
(***************************************************************************)
(* The handler with the events of its page: between browser.newPage() and  *)
(* page.close() the browser may deliver an event at any await.             *)
(***************************************************************************)
\* the most events delivered during a request
MaxEvents == 2

Messages ==
    {<<"Uncaught ReferenceError: ", "require is not defined">>,
     <<"Non-Error promise rejection", " captured">>,
     <<"Failed to load resource: the server responded with a status of ", "404">>,
     <<"TypeError: cart is undefined">>}

EventUrls ==
    {<<"/", "favicon", ".ico">>, <<"/js/", "analytics", ".js">>,
     <<"/downlo", "ads", "/price-list">>, <<"/", "tracking", "/pixel">>,
     <<"/api/cart">>}

PageEvents ==
    {PageEvent("pageerror", m, "", <<>>, 0) : m \in Messages}
        \cup {PageEvent("console", m, ty, <<>>, 0) :
                 m \in Messages, ty \in {"error", "log"}}
        \cup {PageEvent("requestfailed", <<>>, "", u, 0) : u \in EventUrls}
        \cup {PageEvent("response", <<>>, "", u, h) :
                 u \in EventUrls, h \in {200, 404, 500}}

\* the browser delivers an event to the handlers registered on the open page
DeliverEvent ==
    /\ pagesOpened > pagesClosed
    /\ events.n < MaxEvents
    /\ \E e \in PageEvents :
         /\ events' = [n |-> events.n + 1, last |-> e]
         /\ tracker' = Handle(tracker, e)
    /\ UNCHANGED <<pc, site, urls, deepTest, maxDepth, hasKey, urlIdx, success,
                   attempts, results, response, pagesOpened, pagesClosed, pageAt,
                   navLog, status, testSummary, finalDecision, aiReason, judge, err,
                   stack, visitedUrls, pageMetrics, trail, ops, rateLimitMap, clock,
                   served>>

InitEvents == InitWith({ChainSite(2, FALSE)}, {<<"/">>}, {MAX_DEPTH}, BOOLEAN, "for")

NextEvents ==
    \/ Next
    \/ DeliverEvent

SpecEvents == InitEvents /\ [][NextEvents]_vars

(***************************************************************************)
(* The rate limiter on its own: requests of two client addresses as the    *)
(* clock advances.                                                         *)
(***************************************************************************)
\* the most requests of one address, enough for a full window, a refused
\* request and the opening of the next window
MaxRequests == 12

\* the most requests the second address sends in between
MaxOtherRequests == 2

\* how many requests an address sends at most
Quota(clientIP) == IF clientIP = "10.0.0.2" THEN MaxOtherRequests ELSE MaxRequests

\* the most steps of the clock, of half a window each
MaxTicks == 3

rateUnchanged == <<pc, site, urls, deepTest, maxDepth, hasKey, urlIdx, tracker, success,
                   attempts, results, response, pagesOpened, pagesClosed, pageAt,
                   navLog, status, testSummary, finalDecision, aiReason, judge, err,
                   stack, visitedUrls, pageMetrics, trail, ops, events>>

\* a request of a rate-limited route arrives: rateLimit runs to its end
\* before any other request is looked at
Request ==
    /\ \E clientIP \in Clients :
         LET r == rateLimit(rateLimitMap, clientIP, clock)
         IN  /\ Len(served[clientIP]) < Quota(clientIP)
             /\ rateLimitMap' = r.map
             /\ served' = [served EXCEPT ![clientIP] =
                               Append(@, [at |-> clock, next |-> r.next,
                                          status |-> r.status])]
    /\ UNCHANGED <<clock, rateUnchanged>>

\* time passes
Tick ==
    /\ 2 * clock < MaxTicks * RATE_LIMIT_WINDOW
    /\ clock' = clock + RATE_LIMIT_WINDOW \div 2
    /\ UNCHANGED <<rateLimitMap, served, rateUnchanged>>

InitRate ==
    /\ InitWith({ChainSite(2, FALSE)}, {<<"/">>}, {MAX_DEPTH}, {FALSE}, "rate")
    /\ deepTest

NextRate ==
    \/ Request
    \/ Tick

SpecRate == InitRate /\ [][NextRate]_vars

(***************************************************************************)
(* The ledger on its own: any sequence of FailureTracker calls.            *)
(***************************************************************************)
ledgerUnchanged == <<envVars, pc, urlIdx, success, attempts, results, response,
                     pagesOpened, pagesClosed, pageAt, navLog, status, testSummary,
                     finalDecision, aiReason, judge, err, stack, visitedUrls,
                     pageMetrics, trail>>

LedgerAddFailure ==
    /\ pc = "ledger" /\ ops < MaxLedgerOps
    /\ \E severity \in Severities, page \in {NoPage, "/a"} :
         tracker' = addFailure(tracker, "FAILURE", severity, page)
    /\ ops' = ops + 1
    /\ UNCHANGED ledgerUnchanged

LedgerAddWarning ==
    /\ pc = "ledger" /\ ops < MaxLedgerOps
    /\ tracker' = addWarning(tracker, "warning", NoPage)
    /\ ops' = ops + 1
    /\ UNCHANGED ledgerUnchanged

LedgerIncrementTested ==
    /\ pc = "ledger" /\ ops < MaxLedgerOps
    /\ tracker' = incrementTested(tracker)
    /\ ops' = ops + 1
    /\ UNCHANGED ledgerUnchanged

LedgerIncrementBroken ==
    /\ pc = "ledger" /\ ops < MaxLedgerOps
    /\ tracker' = incrementBroken(tracker)
    /\ ops' = ops + 1
    /\ UNCHANGED ledgerUnchanged

InitLedger == InitWith({DownSite(404)}, {<<>>}, {MAX_DEPTH}, {FALSE}, "ledger")

NextLedger ==
    \/ LedgerAddFailure
    \/ LedgerAddWarning
    \/ LedgerIncrementTested
    \/ LedgerIncrementBroken

SpecLedger == InitLedger /\ [][NextLedger]_vars
(***************************************************************************)
(* Properties                                                              *)
(***************************************************************************)
\* the events of the trail for url number u
Events(u, n, ev) == {i \in 1..Len(trail) : trail[i] = [u |-> u, n |-> n, ev |-> ev]}

\* the handler has left the while loop of url number u
SessionOver(u) == \/ urlIdx > u
                  \/ pc = "done"

\* C1: every URL of a batch ends with a Decision: whatever is thrown during
\* its attempts, a result with finalDecision PASS or FAIL has been appended
\* for it when the orchestrator moves on, so a batch that is answered has
\* one result per requested URL.
C1_EveryUrlGetsADecision ==
    /\ pc = "for" =>
          /\ Len(results) = urlIdx - 1
          /\ \A i \in 1..Len(results) :
                /\ results[i].url = urls[i]
                /\ results[i].finalDecision \in {"PASS", "FAIL"}
    /\ response = "json" => Len(results) = Len(urls)

\* C2: a session whose retry budget is spent without reaching evaluation
\* is finalized as FAIL with the reason 'Test execution failed: <cause>'.
C2_ExhaustedBudgetIsRecordedAsFail ==
    (pc = "for" /\ urlIdx > 1 /\ ~success /\ attempts = maxAttempts) =>
        /\ Len(results) >= urlIdx - 1
        /\ results[urlIdx - 1].finalDecision = "FAIL"
        /\ results[urlIdx - 1].combinedReasons.src = "execution"

\* C3: when attempt 1 of a URL throws, the orchestrator waits and then
\* runs attempt 2 on a newly opened page.
C3_SecondAttemptRuns ==
    \A u \in 1..Len(urls) :
        (SessionOver(u) /\ response # "error500" /\ Events(u, 1, "backoff") # {}) =>
            Events(u, 2, "opened") # {}

\* the judge answered FAIL, in the protocol: 'RESULT: FAIL' and no 'RESULT: PASS'
JudgeSaidFail(j) == j.ok /\ j.fail /\ ~j.pass

\* C4: the verdict of every evaluated result is the FAIL-dominant merge:
\* FAIL iff the heuristic (the summary's shouldFail) says FAIL or the judge
\* answered FAIL, PASS otherwise.
C4_VerdictIsFailDominantMerge ==
    \A i \in 1..Len(results) :
        ~results[i].testFailed =>
            (results[i].finalDecision = "FAIL"
                <=> (results[i].testSummary.shouldFail \/ JudgeSaidFail(results[i].judge)))

\* a result where the heuristic said FAIL and the judge answered PASS, one
\* where only the judge said FAIL, and one that passed
C4_Witness ==
    /\ \E i \in 1..Len(results) :
          /\ ~results[i].testFailed
          /\ results[i].testSummary.shouldFail
          /\ results[i].judge.ok /\ results[i].judge.pass
          /\ results[i].finalDecision = "FAIL"
    /\ \E i \in 1..Len(results) :
          /\ ~results[i].testSummary.shouldFail
          /\ JudgeSaidFail(results[i].judge)

\* C5: shouldFail() is true iff a critical failure is recorded, or
\* brokenElements >= 2, or at least 3 failures of severity 'high' are
\* recorded.
C5_ShouldFailIffThreshold ==
    shouldFail(tracker) <=>
        \/ \E i \in 1..Len(tracker.failures) : tracker.failures[i].severity = "critical"
        \/ tracker.brokenElements >= 2
        \/ Cardinality({i \in 1..Len(tracker.failures) :
                           tracker.failures[i].severity = "high"}) >= 3

\* three high failures alone make shouldFail true; a warning, a medium
\* failure and one broken element do not
C5_Witness ==
    /\ shouldFail(tracker)
    /\ Len(tracker.criticalFailures) = 0
    /\ tracker.brokenElements = 1
    /\ Len(tracker.warnings) = 1

\* C6: brokenElements <= testedElements and 0 <= brokenElementRatio <= 1
\* after any sequence of engine operations.
C6_BrokenAtMostTested ==
    /\ tracker.brokenElements <= tracker.testedElements
    /\ LET r == getSummary(tracker).brokenElementRatio
       IN  0 <= r.num /\ r.num <= r.den

\* C7: once shouldFail() is true of a ledger it stays true after any
\* further call on that ledger.
C7_ShouldFailIsMonotonic ==
    [][shouldFail(tracker) => shouldFail(tracker')]_vars

\* a ledger that failed at its first record and took four more calls, a
\* warning and an element count among them
C7_Witness ==
    /\ Len(tracker.failures) >= 2
    /\ tracker.failures[1].severity = "critical"
    /\ tracker.failures[2].severity = "low"
    /\ Len(tracker.warnings) >= 1
    /\ tracker.testedElements >= 1
    /\ tracker.brokenElements >= 1
    /\ shouldFail(tracker)

\* C8: within one session page.goto is called at most once per URL, the
\* load of the root URL included.
C8_NoUrlNavigatedTwice ==
    \A i, j \in 1..Len(navLog) : navLog[i] = navLog[j] => i = j

\* C9: the crawl never has more than 15 pages in visitedUrls or pagesVisited.
C9_PageCap ==
    /\ Cardinality(visitedUrls) <= 15
    /\ Len(tracker.pagesVisited) <= 15

\* the cap is reached while a link that was never visited is still to come
C9_Witness ==
    /\ pc = "links"
    /\ stack # <<>>
    /\ top.i <= Len(top.links)
    /\ link \notin visitedUrls
    /\ Cardinality(visitedUrls) = 15
    /\ Len(tracker.pagesVisited) = 15

\* the URLs the anchors of the page at u link to
LinksOf(s, u) ==
    {PageOf(s, u).elems[i].href : i \in 1..Len(PageOf(s, u).elems)} \ {""}

\* the URLs within d link hops of the set from
RECURSIVE Within(_, _, _)
Within(s, from, d) ==
    IF d <= 0 THEN from
    ELSE Within(s, from \cup UNION {LinksOf(s, u) : u \in from}, d - 1)

\* C10: a crawl with maxDepth = d only navigates to pages within d link
\* hops of the root.
C10_CrawlStaysWithinDepth ==
    pc \notin {"for", "ledger", "done"} =>
        \A i \in 1..Len(navLog) : navLog[i] \in Within(site, {url}, maxDepth)

\* the reason string spells out the HTTP status http
NamesStatus(r, http) ==
    /\ r.src = "synth"
    /\ \E k \in 1..Len(r.parts) : r.parts[k] = [what |-> "HTTP error", n |-> http]

\* the results of attempts that reached evaluation with a root status >= 400
ErrorStatusResults ==
    {i \in 1..Len(results) : ~results[i].testFailed /\ results[i].status >= 400}

\* C11 (as claimed): if the root page's HTTP status is >= 400 and the
\* attempt reaches evaluation, the Decision is FAIL whatever the judge
\* answers, and the reason string contains the status code.
C11_ErrorStatusFailsAndIsNamed ==
    \A i \in ErrorStatusResults :
        /\ results[i].finalDecision = "FAIL"
        /\ NamesStatus(results[i].combinedReasons, results[i].status)

\* C11 (amended): if the root page's HTTP status is >= 400 and the attempt
\* reaches evaluation, the Decision is FAIL whatever the judge answers; the
\* reason string contains the status code unless the judge answered FAIL,
\* and then the reason is the judge's own (its REASON line or its default).
C11_ErrorStatusFails ==
    \A i \in ErrorStatusResults :
        /\ results[i].finalDecision = "FAIL"
        /\ IF JudgeSaidFail(results[i].judge)
           THEN results[i].combinedReasons.src \in {"judge", "judgeDefault"}
           ELSE NamesStatus(results[i].combinedReasons, results[i].status)

\* a root answering 404 that the judge passed, failed with '404' in the reason
C11_Witness ==
    \E i \in ErrorStatusResults :
        /\ results[i].status = 404
        /\ results[i].judge.ok /\ results[i].judge.pass
        /\ results[i].finalDecision = "FAIL"
        /\ NamesStatus(results[i].combinedReasons, 404)

\* the judgment service was asked and gave nothing usable: the call threw,
\* the status was not OK, or the text holds neither RESULT: PASS nor RESULT: FAIL
Unusable(j) == j.throws \/ ~j.ok \/ (~j.pass /\ ~j.fail)

\* C12: whenever the judge is configured but unusable, a warning is added
\* to the ledger, no FailureRecord is created on account of the judge, and
\* the final verdict is the heuristic verdict alone.
C12_UnusableJudgeFallsBack ==
    [][/\ (pc = "judge" /\ pc' = "merge" /\ Unusable(judge')) =>
              /\ Len(tracker'.warnings) = Len(tracker.warnings) + 1
              /\ tracker'.failures = tracker.failures
       /\ (pc = "merge" /\ pc' = "screenshot" /\ hasKey /\ Unusable(judge)) =>
              finalDecision' = IF testSummary.shouldFail THEN "FAIL" ELSE "PASS"]_vars

\* the handler is between two attempts, between two urls, or has answered
BetweenAttempts == pc \in {"while", "for", "done"}

C13_JudgeNeverBlocks == (pc = "judge") ~> (pc = "screenshot")

\* C20: the crawl terminates on every site graph, cycles and self-links
\* included: a crawl that was started returns to the orchestrator.
C20_CrawlTerminates == (pc = "crawl") ~> (pc = "jscheck")

\* a crawl has returned after going round a ring of pages that link to
\* themselves and on to the root
C20_Witness ==
    /\ pc = "jscheck"
    /\ site = RingSite(3, FALSE)
    /\ visitedUrls = {"/a", "/b", "/"}

\* the records of the ledger of a given type
CountType(t, type) ==
    Cardinality({i \in 1..Len(t.failures) : t.failures[i].type = type})

\* the root page has been tested and no other page has
RootTested == pc = "jscheck" /\ Len(tracker.pagesVisited) = 0

\* the inputs of a form that cannot be filled
BadInputs(form) == {i \in 1..Len(form.inputs) : form.inputs[i].beh # "ok"}

\* more than 50% of the inputs of the form cannot be filled
MostlyBroken(form) == 2 * Cardinality(BadInputs(form)) > Len(form.inputs)

\* C15: for each form, FORM_MOSTLY_BROKEN is recorded exactly when the
\* inputs whose fill failed are more than 50% of the inputs attempted, and
\* a session with such a record FAILs whatever the judge answers.
C15_MostlyBrokenIffOverHalf ==
    /\ RootTested =>
          LET forms == PageOf(site, url).forms
          IN  CountType(tracker, "FORM_MOSTLY_BROKEN")
                  = Cardinality({k \in 1..Len(forms) : MostlyBroken(forms[k])})
    /\ \A i \in 1..Len(results) :
          (\E k \in 1..Len(results[i].criticalFailures) :
               results[i].criticalFailures[k].type = "FORM_MOSTLY_BROKEN")
              => results[i].finalDecision = "FAIL"

\* every element of the page is visible, actionable and clickable, and
\* nothing else on the page is a signal
CleanPage(p) ==
    /\ p.http = 200 /\ p.forms = <<>> /\ ~p.scrollThrows /\ p.jsErrors = 0
    /\ \A i \in 1..Len(p.elems) :
          p.elems[i].beh = "ok" /\ p.elems[i].href = "" /\ ~p.elems[i].modal

\* C16: a page of N interactive elements that all pass, with no other
\* signal, ends with testedElements = N, brokenElements = 0, shouldFail
\* false and verdict PASS, however the elements match the selectors.
C16_WorkingPagePasses ==
    \A i \in 1..Len(results) :
        LET p == PageOf(site, results[i].url)
        IN  (~results[i].testFailed /\ CleanPage(p) /\ ~JudgeSaidFail(results[i].judge)) =>
                /\ results[i].testSummary.testedElements = Len(p.elems)
                /\ results[i].testSummary.brokenElements = 0
                /\ ~results[i].testSummary.shouldFail
                /\ results[i].finalDecision = "PASS"

\* the sum of the numbers of a sequence from number i on
RECURSIVE Total(_, _)
Total(numbers, i) ==
    IF i > Len(numbers) THEN 0 ELSE numbers[i] + Total(numbers, i + 1)

\* every element matches one selector and stays on the page, every input is
\* found under its own name, and every visibility check can be evaluated
SimplePage(p) ==
    /\ \A i \in 1..Len(p.elems) :
          /\ Cardinality(p.elems[i].sels) = 1
          /\ p.elems[i].href = "" /\ ~p.elems[i].modal
          /\ p.elems[i].beh \notin {"evalThrows", "infoThrows"}
    /\ \A k \in 1..Len(p.forms) : \A i \in 1..Len(p.forms[k].inputs) :
          /\ FirstMatch(p.forms[k].inputs, p.forms[k].inputs[i]) = i
          /\ p.forms[k].inputs[i].beh \notin {"evalThrows", "infoThrows"}

\* C18: every attempted element, form inputs and submit controls
\* included, adds one to testedElements, and every one that fails a
\* visibility check, the actionability check or the action adds one to
\* brokenElements.
C18_CountedOncePerElement ==
    LET p == PageOf(site, url)
        attempted(form) == Len(form.inputs) + (IF form.hasSubmitButton THEN 1 ELSE 0)
        failed(form) ==
            Cardinality(BadInputs(form))
                + (IF form.hasSubmitButton /\ ~form.submitClickable THEN 1 ELSE 0)
    IN  (RootTested /\ SimplePage(p)) =>
            /\ tracker.testedElements =
                   Len(p.elems) + Total([k \in 1..Len(p.forms) |-> attempted(p.forms[k])], 1)
            /\ tracker.brokenElements =
                   Cardinality({i \in 1..Len(p.elems) : p.elems[i].beh # "ok"})
                       + Total([k \in 1..Len(p.forms) |-> failed(p.forms[k])], 1)

\* sequence a is the beginning of sequence b
IsPrefix(a, b) == Len(a) <= Len(b) /\ SubSeq(b, 1, Len(a)) = a

\* the records of severity 'critical', in the order they were added
Criticals(t) == SelectSeq(t.failures, LAMBDA f : f.severity = "critical")

\* C17: the ledger is append-only: a call on a ledger leaves every record
\* already in failures in its place and unchanged, criticalFailures is the
\* subsequence of the critical records of failures, and so is no longer
\* than failures.
C17_LedgerIsAppendOnly ==
    [][pc # "for" =>
          /\ IsPrefix(tracker.failures, tracker'.failures)
          /\ tracker'.criticalFailures = Criticals(tracker')
          /\ Len(tracker'.criticalFailures) <= Len(tracker'.failures)]_vars

\* a ledger of three records and more, the first and the third critical
C17_Witness ==
    /\ Len(tracker.failures) > 3
    /\ tracker.failures[1].severity = "critical"
    /\ tracker.failures[2].severity = "medium"
    /\ tracker.failures[3].severity = "critical"
    /\ tracker.failures[1].page # tracker.failures[3].page
    /\ Len(tracker.criticalFailures) = 2

\* C19: every URL the crawl navigates to, at any depth, has the hostname
\* of the session's root URL, holds no fragment, is no mailto: or tel:
\* target and does not end in an excluded extension.
C19_CrawlStaysOnSite ==
    pc \notin {"for", "ledger", "done"} =>
        \A i \in 1..Len(navLog) :
            /\ Hostname(navLog[i]) = Hostname(url)
            /\ navLog[i] \notin FragmentUrls \cup MailtoUrls \cup TelUrls \cup BinaryUrls

\* clicks took the page to another host, on the root and again two levels
\* down, and the crawl went on from the links found there into the site
C19_Witness ==
    /\ site = MixedSite(TRUE)
    /\ navLog = <<"/", "/c", "/a">>
    /\ pageAt = "http://other.example/"
    /\ pc = "jscheck"


(***************************************************************************)
(* Page-level failures and the verdict                                     *)
(***************************************************************************)
\* the record types of a page-level failure: a crawl link whose navigation
\* threw, an error response, a page answering an error status, a page with
\* more than three script errors
PageLevelTypes ==
    {"NAVIGATION_ERROR", "CLIENT_ERROR", "SERVER_ERROR", "HTTP_ERROR",
     "PAGE_LOAD_FAILED", "EXCESSIVE_JS_ERRORS"}

HasPageLevelFailure(r) ==
    \E k \in 1..Len(r.failures) : r.failures[k].type \in PageLevelTypes

\* C21: a result of an evaluated session whose ledger holds a page-level
\* failure (a navigation error on a crawled link, an error response, or
\* excessive script errors) carries the verdict FAIL, whatever else the
\* ledger and the judge say.
C21_PageLevelFailureFails ==
    \A i \in 1..Len(results) :
        (~results[i].testFailed /\ HasPageLevelFailure(results[i]))
            => results[i].finalDecision = "FAIL"

(***************************************************************************)
(* The Decision of a URL is terminal                                       *)
(***************************************************************************)
\* a result has been emitted for url number u
Decided(u) == \E i \in 1..Len(trail) : trail[i].u = u /\ trail[i].ev = "result"

\* C23: once a result has been emitted for a URL, no further attempt is
\* started for it (its attempt counter stays, no page is opened for it) and
\* nothing more is appended to results for it: a result is only ever
\* appended, one at a time, for a URL that has none yet.
C23_DecisionIsTerminal ==
    [][/\ Decided(urlIdx) =>
              /\ attempts' = attempts
              /\ pagesOpened' = pagesOpened
              /\ results' = results
       /\ results' # results =>
              /\ ~Decided(urlIdx)
              /\ Len(results') = Len(results) + 1
              /\ SubSeq(results', 1, Len(results)) = results
              /\ Decided(urlIdx)']_vars

\* the loop of the first URL has ended on its result and the second URL's
\* session has got its own
C23_Witness ==
    /\ pc = "finally"
    /\ urlIdx = 2
    /\ Len(results) = 2
    /\ Decided(1) /\ Decided(2)
    /\ Len(trail) = 4

(***************************************************************************)
(* Crawl candidates are marked before they are loaded                      *)
(***************************************************************************)
\* the URLs the crawl has called page.goto with: navLog without the root load
Crawled == SubSeq(navLog, 2, Len(navLog))

InSeq(x, seq) == \E i \in 1..Len(seq) : seq[i] = x

\* C24: when page.goto is about to be called for a crawl candidate, the
\* candidate is already in visitedUrls and in pagesVisited and the crawl
\* has not loaded it before; every candidate the crawl has loaded or tried
\* to load, whatever the outcome, stays in visitedUrls and was navigated
\* to once only.
C24_CandidateVisitedBeforeGoto ==
    /\ pc = "nav" =>
          /\ link \in visitedUrls
          /\ InSeq(link, tracker.pagesVisited)
          /\ ~InSeq(link, Crawled)
    /\ \A i \in 1..Len(Crawled) :
          /\ Crawled[i] \in visitedUrls
          /\ \A j \in 1..Len(Crawled) : Crawled[i] = Crawled[j] => i = j

\* the crawl is over on the site whose dead link /b and whose 404 page /a
\* are linked from two places, and it has followed the links of /d, the
\* second page linking to /b
C24_Witness ==
    /\ site = FaultySite
    /\ pc = "jscheck"
    /\ InSeq("/a", Crawled) /\ InSeq("/b", Crawled) /\ InSeq("/e", Crawled)

(***************************************************************************)
(* A crawled page that answers an error status                             *)
(***************************************************************************)
\* the records a step appends to the ledger
Added == SubSeq(tracker'.failures, Len(tracker.failures) + 1, Len(tracker'.failures))

\* C25: when the page of a crawl link answers a status >= 400, the step
\* that loads it appends exactly one PAGE_LOAD_FAILED record, which is
\* critical and tagged with the link's URL, tests no element of the page,
\* does not enter a deeper call from it, and leaves the loop at the next
\* sibling link.
C25_ErrorStatusPageIsSkipped ==
    [][(pc = "nav" /\ PageOf(site, link).http >= 400) =>
           /\ IsPrefix(tracker.failures, tracker'.failures)
           /\ Cardinality({k \in 1..Len(Added) : Added[k].type = "PAGE_LOAD_FAILED"}) = 1
           /\ Added[Len(Added)] = FailureRecord("PAGE_LOAD_FAILED", "critical", link)
           /\ InSeq(Added[Len(Added)], tracker'.criticalFailures)
           /\ tracker'.testedElements = tracker.testedElements
           /\ tracker'.brokenElements = tracker.brokenElements
           /\ pc' = "links"
           /\ Len(stack') = Len(stack)
           /\ stack'[Len(stack)] = [top EXCEPT !.i = top.i + 1]]_vars

\* the crawl is over on the site whose root links to a 404 page and a 500
\* page: both are recorded, and the sibling /d after them was loaded
C25_Witness ==
    /\ site = FaultySite
    /\ pc = "jscheck"
    /\ CountType(tracker, "PAGE_LOAD_FAILED") = 2
    /\ InSeq(FailureRecord("PAGE_LOAD_FAILED", "critical", "/a"), tracker.failures)
    /\ InSeq("/d", Crawled)

(***************************************************************************)
(* A crawl link whose navigation throws                                    *)
(***************************************************************************)
\* C26: when page.goto throws for a crawl link, the step appends one
\* record, NAVIGATION_ERROR of severity high tagged with the link, the
\* attempt goes on (control does not reach the orchestrator's catch and no
\* attempt is counted), and the loop is left at the next sibling link.
C26_NavigationErrorIsPerLink ==
    [][(pc = "nav" /\ PageOf(site, link).http = 0) =>
           /\ IsPrefix(tracker.failures, tracker'.failures)
           /\ Added = <<FailureRecord("NAVIGATION_ERROR", "high", link)>>
           /\ tracker'.criticalFailures = tracker.criticalFailures
           /\ pc' = "links"
           /\ err' = err /\ attempts' = attempts
           /\ Len(stack') = Len(stack)
           /\ stack'[Len(stack)] = [top EXCEPT !.i = top.i + 1]]_vars

\* the navigation to /b threw, and the later siblings /c and /d were
\* navigated to in the same attempt
C26_Witness ==
    /\ site = FaultySite
    /\ attempts = 1
    /\ InSeq(FailureRecord("NAVIGATION_ERROR", "high", "/b"), tracker.failures)
    /\ \E i, j, k \in 1..Len(Crawled) :
          i < j /\ j < k /\ Crawled[i] = "/b" /\ Crawled[j] = "/c" /\ Crawled[k] = "/d"

(***************************************************************************)
(* The depth of the crawl                                                  *)
(***************************************************************************)
\* a < b as the code evaluates it
Less(a, b) == b # NaN /\ a < b

\* the levels at which links have been extracted and are being followed:
\* the calls of performComprehensiveNavigation that are in their link loop
Levels == {stack[k].depth : k \in 1..Len(stack)}

\* C27 as stated: links are extracted and followed only at a level with
\* currentDepth < min(requested maxDepth, 4), whatever maxDepth the
\* request supplies, and the calls never nest deeper than MAX_DEPTH.
C27_LevelsBelowMinDepth ==
    /\ \A d \in Levels : Less(d, CrawlDepth(maxDepth))
    /\ Len(stack) <= MAX_DEPTH

\* C27 as amended: for a numeric maxDepth the levels are those below
\* min(maxDepth, 4); for a maxDepth that is not a number links are
\* extracted and followed at level 0 only; in both cases call k of the
\* nest runs at level k - 1 and the calls never nest deeper than MAX_DEPTH.
C27_DepthIsBounded ==
    /\ \A k \in 1..Len(stack) : stack[k].depth = k - 1
    /\ \A d \in Levels :
          IF maxDepth = NaN THEN d = 0 ELSE d < CrawlDepth(maxDepth)
    /\ Len(stack) <= MAX_DEPTH

\* a request for more than MAX_DEPTH levels on a chain that long: the
\* crawl is four calls deep and about to load the link of the fourth level
C27_Witness ==
    /\ maxDepth > MAX_DEPTH
    /\ Len(stack) = MAX_DEPTH
    /\ pc = "nav"

(***************************************************************************)
(* safeElementAction on elements that cannot be acted on                   *)
(***************************************************************************)
\* the record of the check before the action
PreCheck(b) ==
    FailureRecord(IF b = "hidden" THEN "HIDDEN_ELEMENT" ELSE "DISABLED_ELEMENT",
                  "medium", NoPage)

InputFailed == FailureRecord("FORM_INPUT_FAILED", "high", NoPage)

\* C28: for an element that is not visible or not clickable before the
\* action, safeElementAction adds one record of severity medium
\* (HIDDEN_ELEMENT or DISABLED_ELEMENT) and counts the element as tested
\* and as broken; the action is not performed (the click that would load
\* /a leaves the page where it is) and the caller gets false (the form
\* loop records FORM_INPUT_FAILED right after it).
C28_NotActionableIsRecordedNotActedOn ==
    RootTested =>
        \A b \in {"hidden", "disabled"} :
            /\ site = ClickSite(b) =>
                  /\ tracker.failures = <<PreCheck(b)>>
                  /\ tracker.testedElements = 1
                  /\ tracker.brokenElements = 1
                  /\ pageAt = "/"
            /\ site = PairSite(b) =>
                  /\ tracker.failures = <<PreCheck(b)>>
                  /\ tracker.testedElements = 2
                  /\ tracker.brokenElements = 1
            /\ site = InputSite(b) =>
                  /\ CountSeverity(tracker, "medium") = 1
                  /\ Len(tracker.failures) >= 2
                  /\ SubSeq(tracker.failures, 1, 2) = <<PreCheck(b), InputFailed>>
                  /\ tracker.brokenElements = 1

C28_Witness ==
    /\ RootTested
    /\ site = ClickSite("hidden")
    /\ tracker.brokenElements = 1

ActionFailed == FailureRecord("INTERACTION_FAILED", "high", NoPage)

\* C29: for an element whose action throws or times out, safeElementAction
\* adds one INTERACTION_FAILED record of severity high and counts one
\* broken element; the caller gets false and no exception: the element
\* loop goes on to the next element (two elements are tested) and the form
\* loop records FORM_INPUT_FAILED right after it.
C29_FailedActionIsRecordedAndContained ==
    RootTested =>
        /\ site = PairSite("actionFails") =>
              /\ tracker.failures = <<ActionFailed>>
              /\ tracker.brokenElements = 1
              /\ tracker.testedElements = 2
        /\ site = ClickSite("actionFails") =>
              /\ tracker.failures = <<ActionFailed>>
              /\ tracker.brokenElements = 1
              /\ pageAt = "/"
        /\ site = InputSite("actionFails") =>
              /\ Len(tracker.failures) >= 2
              /\ SubSeq(tracker.failures, 1, 2) = <<ActionFailed, InputFailed>>
              /\ CountType(tracker, "INTERACTION_FAILED") = 1
              /\ tracker.brokenElements = 1

C29_Witness ==
    /\ RootTested
    /\ site = PairSite("actionFails")
    /\ tracker.testedElements = 2

StillHidden == FailureRecord("ELEMENT_STILL_HIDDEN_AFTER_SCROLL", "critical", NoPage)

\* C30: for an element that passed the checks before the action and is
\* not visible after the scroll, a record of severity critical is added
\* and the action is not performed; every result whose ledger holds that
\* record has the verdict FAIL, whatever the judge answered.
C30_StillHiddenIsCriticalAndFails ==
    /\ (RootTested /\ site = ClickSite("stillHidden")) =>
          /\ tracker.failures = <<StillHidden>>
          /\ tracker.criticalFailures = <<StillHidden>>
          /\ pageAt = "/"
    /\ \A i \in 1..Len(results) :
          \A k \in 1..Len(results[i].failures) :
              results[i].failures[k].type = "ELEMENT_STILL_HIDDEN_AFTER_SCROLL" =>
                  /\ results[i].failures[k] = StillHidden
                  /\ InSeq(StillHidden, results[i].criticalFailures)
                  /\ results[i].testSummary.shouldFail
                  /\ results[i].finalDecision = "FAIL"

\* the judge answered PASS for the page whose one element stays hidden
\* after the scroll, and the result is FAIL
C30_Witness ==
    /\ site = ClickSite("stillHidden")
    /\ Len(results) = 1
    /\ results[1].judge.pass /\ ~results[1].judge.fail
    /\ results[1].failures = <<StillHidden>>
    /\ results[1].finalDecision = "FAIL"

(***************************************************************************)
(* Warnings                                                                *)
(***************************************************************************)
\* the ledger t with its warnings taken away
WithoutWarnings(t) == [t EXCEPT !.warnings = <<>>]

\* C31: a call that adds a warning leaves failures, criticalFailures,
\* testedElements and brokenElements as they are, and shouldFail and the
\* verdict merged from it are those of the same ledger without warnings.
C31_WarningsNeverFail ==
    [][/\ tracker'.warnings # tracker.warnings =>
              /\ tracker'.failures = tracker.failures
              /\ tracker'.criticalFailures = tracker.criticalFailures
              /\ tracker'.testedElements = tracker.testedElements
              /\ tracker'.brokenElements = tracker.brokenElements
              /\ shouldFail(tracker') = shouldFail(tracker)
       /\ shouldFail(tracker') = shouldFail(WithoutWarnings(tracker'))
       /\ \A d \in {"PASS", "FAIL"} :
              Merge(d, getSummary(tracker')) =
                  Merge(d, getSummary(WithoutWarnings(tracker')))]_vars

\* three warnings beside two failures of severity high: the ledger does
\* not fail
C31_Witness ==
    /\ pc = "ledger"
    /\ Len(tracker.warnings) = 3
    /\ CountSeverity(tracker, "high") = 2
    /\ ~shouldFail(tracker)

(***************************************************************************)
(* The reason of a FAIL verdict                                            *)
(***************************************************************************)
\* the results of evaluated sessions with the verdict FAIL
FailResults ==
    {i \in 1..Len(results) :
        ~results[i].testFailed /\ results[i].finalDecision = "FAIL"}

\* C32 as stated: the reason of a FAIL verdict is the judge's stated reason
\* when the judge answered FAIL with a REASON line, and otherwise the text
\* synthesized from the summary snapshot and the root status (the fixed
\* fallback text when no part applies).
C32_ReasonIsJudgesOrSynthesized ==
    \A i \in FailResults :
        IF JudgeSaidFail(results[i].judge) /\ results[i].judge.reason
        THEN results[i].combinedReasons = Reason("judge", "", <<>>)
        ELSE results[i].combinedReasons =
                 SynthReason(results[i].testSummary, results[i].status)

\* C32 as amended: as stated, except that when the judge answered FAIL
\* without a REASON line the reason is the judge branch's own fixed text
\* 'Critical functionality issues detected', whatever the ledger holds.
C32_ReasonIsJudgesDefaultOrSynthesized ==
    \A i \in FailResults :
        IF JudgeSaidFail(results[i].judge)
        THEN results[i].combinedReasons =
                 Reason(IF results[i].judge.reason THEN "judge" ELSE "judgeDefault",
                        "", <<>>)
        ELSE /\ results[i].testSummary.shouldFail
             /\ results[i].combinedReasons =
                    SynthReason(results[i].testSummary, results[i].status)

\* the judge answered FAIL with a reason for a session whose ledger fails
\* by itself: the result carries the judge's reason
C32_Witness ==
    \E i \in FailResults :
        /\ results[i].testSummary.shouldFail
        /\ JudgeSaidFail(results[i].judge) /\ results[i].judge.reason
        /\ results[i].combinedReasons.src = "judge"

(***************************************************************************)
(* The close sequence of an overlay                                        *)
(***************************************************************************)
\* the close controls a sequence that stops at the first control that
\* exists and is clickable acts on: the existing ones up to that control
RECURSIVE TriedUntilClicked(_, _)
TriedUntilClicked(closers, k) ==
    IF k > Len(closers) THEN 0
    ELSE IF closers[k] = "absent" THEN TriedUntilClicked(closers, k + 1)
    ELSE IF closers[k] = "ok" THEN 1
    ELSE 1 + TriedUntilClicked(closers, k + 1)

\* C33: after the click that opens the overlay, the close controls are
\* tried in order up to the first one that exists and is clickable: every
\* existing control before it is acted on and recorded as broken, and
\* that control is acted on too.
C33_CloseSequenceStopsAtFirstClickable ==
    (RootTested /\ site \in ModalSites) =>
        LET tried == TriedUntilClicked(site["/"].closers, 1)
        IN  /\ tracker.testedElements = 1 + tried
            /\ tracker.brokenElements \in {tried - 1, tried}

(***************************************************************************)
(* The candidate list of a page                                            *)
(***************************************************************************)
\* the anchors of page p that link to href, inside a nav container or not
AnchorsTo(p, href, inNav) ==
    {k \in 1..Len(p.elems) : p.elems[k].href = href /\ p.elems[k].inNav = inNav}

First(S) == CHOOSE k \in S : \A n \in S : k <= n

\* where href stands among the links of p: with the nav links when an
\* anchor inside a nav container links to it, and at its first anchor there
Rank(p, href) ==
    IF AnchorsTo(p, href, TRUE) # {}
    THEN <<0, First(AnchorsTo(p, href, TRUE))>>
    ELSE <<1, First(AnchorsTo(p, href, FALSE))>>

Before(r1, r2) == r1[1] < r2[1] \/ (r1[1] = r2[1] /\ r1[2] < r2[2])

\* the hrefs of page p that qualify as candidates
Candidates(p, base, visited) ==
    {p.elems[k].href : k \in {n \in 1..Len(p.elems) :
        p.elems[n].href # "" /\ Qualifies(p.elems[n].href, base, visited)}}

\* list holds candidates of p only, none twice, nav links first and each
\* group in the order of first occurrence, and the candidates left out are
\* those after the tenth
CandidateList(list, p, base, visited) ==
    /\ Len(list) <= LINKS_PER_PAGE
    /\ \A i \in 1..Len(list) : list[i] \in Candidates(p, base, visited)
    /\ \A i, j \in 1..Len(list) :
          i < j => /\ list[i] # list[j]
                   /\ Before(Rank(p, list[i]), Rank(p, list[j]))
    /\ \A h \in Candidates(p, base, visited) :
          InSeq(h, list) \/
              /\ Len(list) = LINKS_PER_PAGE
              /\ Before(Rank(p, list[Len(list)]), Rank(p, h))

\* C34: the list a call of the crawl extracts from the page it is on has
\* at most 10 entries and no URL twice, holds the links found inside a
\* nav container before those found only outside one, and keeps each group
\* in the order of first occurrence.
C34_CandidatesArePrioritized ==
    [][Len(stack') > Len(stack) =>
           CandidateList(stack'[Len(stack')].links, PageOf(site, pageAt'),
                         stack'[Len(stack')].base, visitedUrls)]_vars

\* the list extracted from the root whose plain links come first in the
\* document
C34_Witness ==
    /\ site = OrderSite
    /\ pc = "links"
    /\ Len(stack) = 1
    /\ top.i = 1
    /\ top.links = <<"/b", "/a", "/c", "/d", "/e">>

(***************************************************************************)
(* Page events and the ledger                                              *)
(***************************************************************************)
\* the step delivers an event to the page's handlers
Delivered == events'.n = events.n + 1

\* the event is from a source the claim names as noisy: a failed request
\* or a response for a favicon or analytics URL, a page error or a console
\* error on the handler's allowlist
Noisy(e) ==
    CASE e.kind \in {"requestfailed", "response"} ->
             includesAny(e.url, {"favicon", "analytics"})
      [] e.kind = "pageerror" ->
             includesAny(e.text, {"require is not defined", "Script error",
                                  "Non-Error promise rejection"})
      [] e.kind = "console" ->
             e.type = "error" /\
                 includesAny(e.text, {"require is not defined", "favicon",
                                      "Script error", "404"})
      [] OTHER -> FALSE

\* the step appends to failures the records of seq and nothing else
Adds(seq) ==
    /\ IsPrefix(tracker.failures, tracker'.failures)
    /\ Added = seq

\* what the handlers do with the event e that does not depend on the
\* reading of 'every other response'
NoisyEventsAddNothing(e) == Noisy(e) => Adds(<<>>)

ErrorResponseIsRecorded(e) ==
    /\ e.http >= 500 => Adds(<<FailureRecord("SERVER_ERROR", "critical", NoPage)>>)
    /\ e.http \in 400..499 => Adds(<<FailureRecord("CLIENT_ERROR", "high", NoPage)>>)

\* C35 as stated: an event from a noisy source adds no record, and every
\* response that is not for a favicon or analytics URL adds a critical
\* SERVER_ERROR for a status >= 500 and a high CLIENT_ERROR for 400-499.
C35_NoisyEventsAreDropped ==
    [][Delivered =>
          LET e == events'.last
          IN  /\ NoisyEventsAddNothing(e)
              /\ (e.kind = "response" /\ ~Noisy(e)) => ErrorResponseIsRecorded(e)]_vars

\* C35 as amended: as stated, with the responses whose URL contains 'ads'
\* among those that add no record.
C35_NoisyAndAdsEventsAreDropped ==
    [][Delivered =>
          LET e == events'.last
          IN  /\ NoisyEventsAddNothing(e)
              /\ (e.kind = "response" /\ includes(e.url, "ads")) => Adds(<<>>)
              /\ (e.kind = "response" /\ ~Noisy(e) /\ ~includes(e.url, "ads")) =>
                     ErrorResponseIsRecorded(e)]_vars

\* a response of status 500 for the favicon has been dropped, after one
\* event that put a critical record on the ledger
C35_Witness ==
    /\ events.n = 2
    /\ events.last = PageEvent("response", <<>>, "", <<"/", "favicon", ".ico">>, 500)
    /\ tracker.failures = <<FailureRecord("SERVER_ERROR", "critical", NoPage)>>

(***************************************************************************)
(* The JS-error check                                                      *)
(***************************************************************************)
\* C36: on a page that has collected n script errors the check adds the
\* critical record EXCESSIVE_JS_ERRORS exactly when n > 3, only a warning
\* when n is 1, 2 or 3, and nothing when n = 0; when the check itself
\* throws it adds a warning and no FailureRecord.
C36_JsErrorCheck ==
    (pc = "mobile" /\ site \in JsSites) =>
        LET n == site["/"].jsErrors
            excessive == <<FailureRecord("EXCESSIVE_JS_ERRORS", "critical", "main")>>
        IN  IF site["/"].jsCheckThrows
            THEN tracker.failures = <<>> /\ Len(tracker.warnings) = 1
            ELSE /\ n > CRITICAL_ERROR_THRESHOLD <=> tracker.failures = excessive
                 /\ n > CRITICAL_ERROR_THRESHOLD =>
                        /\ tracker.criticalFailures = excessive
                        /\ tracker.warnings = <<>>
                 /\ n \in 1..CRITICAL_ERROR_THRESHOLD =>
                        tracker.failures = <<>> /\ Len(tracker.warnings) = 1
                 /\ n = 0 => tracker.failures = <<>> /\ tracker.warnings = <<>>

\* the check has run on a page with exactly three errors, and on none with
\* four
C36_Witness ==
    /\ pc = "mobile"
    /\ site = JsSite(CRITICAL_ERROR_THRESHOLD, FALSE)
    /\ Len(tracker.warnings) = 1

(***************************************************************************)
(* The result and the ledger data it carries                               *)
(***************************************************************************)
\* the ledger data of result r would make shouldFail true
CarriesFailure(r) ==
    \/ Len(r.criticalFailures) > 0
    \/ Cardinality({k \in 1..Len(r.failures) : r.failures[k].severity = "high"})
           >= CRITICAL_ERROR_THRESHOLD

\* C37: whenever page events are delivered, every result of an evaluated
\* session whose criticalFailures list is not empty, or whose failures
\* hold three records of severity high, has the verdict FAIL.
C37_ResultAgreesWithItsLedgerData ==
    \A i \in 1..Len(results) :
        (~results[i].testFailed /\ CarriesFailure(results[i])) =>
            results[i].finalDecision = "FAIL"

(***************************************************************************)
(* Reason and verdict                                                      *)
(***************************************************************************)
\* the text of reason r is the empty string: only a joined reasons array
\* without parts is; the judge's captured reason, the two fixed texts and
\* the execution-failure text have at least one character
EmptyText(r) == r.src = "synth" /\ r.parts = <<>>

\* C38: in every emitted result the reason is null exactly when the
\* verdict is PASS, and the reason of a FAIL result is not the empty text.
C38_ReasonExactlyWhenFail ==
    \A i \in 1..Len(results) :
        /\ results[i].finalDecision \in {"PASS", "FAIL"}
        /\ (results[i].combinedReasons = NullReason) <=>
               (results[i].finalDecision = "PASS")
        /\ ~EmptyText(results[i].combinedReasons)

\* a FAIL result whose reasons array had no part (three failures of
\* severity high, nothing critical, few broken elements, status below
\* 400): its reason is the fixed fallback text
C38_Witness ==
    \E i \in FailResults :
        /\ results[i].testSummary.shouldFail
        /\ results[i].combinedReasons = Reason("fallback", "", <<>>)

(***************************************************************************)
(* pagesVisited and visitedUrls                                            *)
(***************************************************************************)
\* pagesVisited lists the members of visitedUrls, each once
VisitedOnce ==
    /\ \A i, j \in 1..Len(tracker.pagesVisited) :
          tracker.pagesVisited[i] = tracker.pagesVisited[j] => i = j
    /\ Len(tracker.pagesVisited) = Cardinality(visitedUrls)
    /\ {tracker.pagesVisited[i] : i \in 1..Len(tracker.pagesVisited)} = visitedUrls

\* the steps of performComprehensiveNavigation
CrawlPcs == {"links", "nav", "visit"}

\* C39: after every step pagesVisited has no duplicate entry and as many
\* entries as visitedUrls has members, the same URLs; no step of a crawl
\* removes a member of visitedUrls; and pagesVisited is empty unless the
\* deep test is enabled and the root page has a navigation container.
C39_PagesVisitedMirrorsVisitedUrls ==
    [][/\ VisitedOnce'
       /\ (pc \in CrawlPcs => visitedUrls \subseteq visitedUrls')
       /\ (Len(tracker'.pagesVisited) > 0 =>
              deepTest' /\ pageMetrics'.hasNavigation)]_vars

\* the link loop is at a link that a deeper call has visited already, two
\* pages into the crawl
C39_Witness ==
    /\ pc = "links"
    /\ stack # <<>>
    /\ top.i <= Len(top.links)
    /\ link \in visitedUrls
    /\ Len(tracker.pagesVisited) >= 2
    /\ VisitedOnce

(***************************************************************************)
(* The rate limiter                                                        *)
(***************************************************************************)
\* for each request of log, the request that opened the window it falls
\* in: the first request of the address, or the first one that arrived
\* after the resetTime of the window before (a request arriving at
\* resetTime itself still belongs to the window)
RECURSIVE WindowOpeners(_)
WindowOpeners(log) ==
    IF Len(log) <= 1 THEN [k \in 1..Len(log) |-> 1]
    ELSE LET before == WindowOpeners(SubSeq(log, 1, Len(log) - 1))
             o == before[Len(log) - 1]
         IN  Append(before,
                    IF log[Len(log)].at > log[o].at + RATE_LIMIT_WINDOW
                    THEN Len(log) ELSE o)

\* the requests of the window opened by request o, up to request k, that
\* were passed on
Admitted(log, o, k) == {j \in o..k : log[j].next}

\* C40: for every client address, by its own requests alone: the request
\* that opens a window is passed on, at most RATE_LIMIT_MAX_REQUESTS
\* requests of one window are passed on, the 11th and later requests of a
\* window that arrive before its resetTime are answered 429 and not passed
\* on, and the entry of the address counts the requests passed on in its
\* current window (1 when a request has just opened it) and ends the
\* window RATE_LIMIT_WINDOW after its opening.
C40_AtMostTenPerWindow ==
    \A ip \in Clients :
        LET log == served[ip]
            opener == WindowOpeners(log)
        IN  /\ \A k \in 1..Len(log) :
                  LET o == opener[k]
                  IN  /\ k = o => log[k].next
                      /\ Cardinality(Admitted(log, o, k)) <= RATE_LIMIT_MAX_REQUESTS
                      /\ (/\ k - o >= RATE_LIMIT_MAX_REQUESTS
                          /\ log[k].at < log[o].at + RATE_LIMIT_WINDOW)
                            => ~log[k].next /\ log[k].status = 429
            /\ IF Len(log) = 0 THEN ip \notin DOMAIN rateLimitMap
               ELSE LET o == opener[Len(log)]
                    IN  /\ ip \in DOMAIN rateLimitMap
                        /\ rateLimitMap[ip].count = Cardinality(Admitted(log, o, Len(log)))
                        /\ rateLimitMap[ip].resetTime = log[o].at + RATE_LIMIT_WINDOW

\* an address sent eleven requests before the resetTime of its window, the
\* eleventh was answered 429, and its request after resetTime opened a new
\* window, while the other address sent a request inside the first window
C40_Witness ==
    \E ip \in Clients :
        /\ Len(served[ip]) = 12
        /\ served[ip][11].at < served[ip][1].at + RATE_LIMIT_WINDOW
        /\ served[ip][11].status = 429
        /\ served[ip][12].at > served[ip][1].at + RATE_LIMIT_WINDOW
        /\ served[ip][12].next
        /\ rateLimitMap[ip].count = 1
        /\ \E other \in Clients \ {ip} :
             /\ Len(served[other]) = 1
             /\ served[other][1].at > served[ip][1].at
             /\ served[other][1].at <= served[ip][11].at
====
